---- MODULE Spec2Model ----
(***************************************************************************)
(* Model of the request/lease translation layer of vault-plugin-host       *)
(* (package handlers: Handler.SetBackend, HandleRequest, HandleLeaseRenew, *)
(* HandleLeaseRevoke, HandleLeaseRevokeByPath, HandleHealth), of the       *)
(* plugin bridge (PluginHost.Start, PluginHost.Stop), of the in-memory     *)
(* storage and of the routes main registers.                               *)
(*                                                                         *)
(* Three specifications share the actions: Spec (two workers, few          *)
(* requests), SpecSeq (one worker, every kind of request) and SpecHost     *)
(* (one worker behind the server's routes, two callers of Start and Stop). *)
(*                                                                         *)
(* One HTTP worker goroutine per element of Workers.  A handler is cut     *)
(* into steps at the points where it touches shared state: the backend     *)
(* reference (h.mu), the lease table (h.leaseMu), the wall clock and the   *)
(* plugin backend.  A critical section is one atomic step, so a mutex is   *)
(* only ever observed held when a goroutine died inside the section.       *)
(* PluginHost.mu is held across several steps of Start and Stop and is     *)
(* modelled by the caller that holds it.                                   *)
(*                                                                         *)
(* Strings that the code cuts at '/' (URL paths, lease IDs) are sequences  *)
(* of their '/'-separated segments: "/v1/plugin/x" is <<"","v1","plugin",  *)
(* "x">>, "a/b" is <<"a","b">> and the empty string is <<"">>.             *)
(* Times and durations are in milliseconds.                                *)
(***************************************************************************)
EXTENDS Integers, Sequences, FiniteSets, TLC

(* ------------------------------ bounds -------------------------------- *)
MaxLeases == 1       \* lease IDs generated in one run
MaxDays == 1         \* clock jumps of one default lease duration
NumBackends == 1     \* distinct backend objects handed to SetBackend
MaxStarts == 2       \* Start attempts that get past the "already started" test
MaxKeys == 1         \* keys the backend can put into the storage
MaxConfigLen == 5    \* characters in the value of the -config flag

Workers == {"w1", "w2"}

\* the goroutines that call PluginHost.Start and PluginHost.Stop
Callers == {"h1", "h2"}

(* ------------------------- program constants -------------------------- *)
Second == 1000
Hour == 3600 * Second
DefaultLeaseDuration == 24 * Hour

StatusOK == 200
StatusNoContent == 204
StatusBadRequest == 400
StatusForbidden == 403
StatusNotFound == 404
StatusMethodNotAllowed == 405
StatusInternalServerError == 500
StatusServiceUnavailable == 503

Nil == 0
Backends == 1..NumBackends
MountPath == <<"plugin">>
MaxClock == MaxDays * DefaultLeaseDuration

(* ------------------------- string primitives -------------------------- *)
\* strings.HasPrefix(s, dir + "/"): dir is the prefix without its final '/'
HasPrefixDir(s, dir) ==
    /\ Len(s) > Len(dir)
    /\ SubSeq(s, 1, Len(dir)) = dir

\* strings.TrimPrefix(s, dir + "/")
TrimPrefixDir(s, dir) ==
    IF HasPrefixDir(s, dir) THEN SubSeq(s, Len(dir) + 1, Len(s)) ELSE s

\* strings.HasSuffix(s, "/" + name)
HasSuffixSeg(s, name) ==
    /\ Len(s) >= 2
    /\ s[Len(s)] = name

\* strings.TrimSuffix(s, "/" + name)
TrimSuffixSeg(s, name) ==
    IF HasSuffixSeg(s, name) THEN SubSeq(s, 1, Len(s) - 1) ELSE s

\* time.Duration.Seconds() converted with int(): truncation toward zero
Seconds(d) ==
    IF d >= 0 THEN d \div Second ELSE -((-d) \div Second)

(* --------------------------- JSON bodies ------------------------------ *)
\* A body is [kind, lease_id, increment]: kind is "empty", "invalid" (not
\* JSON), "array", "null" or "object"; an object carries the two members the
\* lease endpoints read.  A member is [t, s, n]: t is its JSON type
\* ("absent" when the object has no such member), s a string, n a number.
JAbsent == [t |-> "absent", s |-> <<"">>, n |-> 0]
JStr(s) == [t |-> "string", s |-> s, n |-> 0]
JNum(n) == [t |-> "number", s |-> <<"">>, n |-> n]
Body(kind, id, inc) == [kind |-> kind, lease_id |-> id, increment |-> inc]
EmptyBody == Body("empty", JAbsent, JAbsent)
InvalidBody == Body("invalid", JAbsent, JAbsent)
ArrayBody == Body("array", JAbsent, JAbsent)
NullBody == Body("null", JAbsent, JAbsent)
ObjectBody(id, inc) == Body("object", id, inc)

\* json.Unmarshal(body, &requestData) for requestData map[string]interface{}:
\* only an object or null decodes; null leaves the map nil.
UnmarshalFails(body) == body.kind \notin {"object", "null"}

\* requestData[name] of the decoded map (nil for a nil map)
Member(body, name) ==
    IF body.kind # "object" THEN JAbsent
    ELSE IF name = "lease_id" THEN body.lease_id
    ELSE body.increment

\* requestData != nil (the Data of the logical.Request)
HasData(body) == body.kind = "object"

(* --------------------------- secrets ---------------------------------- *)
NoSecret == [present |-> FALSE, TTL |-> 0]
SecretTTL(ttl) == [present |-> TRUE, TTL |-> ttl]

\* a record created with renewable false (fault injected for C40)
LeaseInfoNotRenewable(id, path, secret, issue, expire, dur) ==
    [LeaseID |-> id, Path |-> path, Data |-> "data", Secret |-> secret,
     IssueTime |-> issue, ExpireTime |-> expire, Duration |-> dur,
     Renewable |-> FALSE]

(* A LeaseInfo object *)
LeaseInfo(id, path, secret, issue, expire, dur) ==
    [LeaseID |-> id, Path |-> path, Data |-> "data", Secret |-> secret,
     IssueTime |-> issue, ExpireTime |-> expire, Duration |-> dur,
     Renewable |-> TRUE]

\* an address that holds no object (not allocated yet, or garbage)
NoObject ==
    [LeaseID |-> <<"">>, Path |-> <<"">>, Data |-> "", Secret |-> NoSecret,
     IssueTime |-> 0, ExpireTime |-> 0, Duration |-> 0, Renewable |-> FALSE]

(* ------------------------------ state --------------------------------- *)
VARIABLES
    backend,      \* Handler.backend: Nil or a backend
    leases,       \* Handler.leases: lease ID -> address of its LeaseInfo
    heap,         \* the LeaseInfo objects, by address (the ID's number)
    leaseMu,      \* Handler.leaseMu is held (TRUE) or free
    now,          \* the wall clock (time.Now)
    pc,           \* where each worker is in its handler
    loc,          \* each worker's request and local variables
    resp,         \* the HTTP response each worker has written
    generated,    \* lease IDs generated so far (the random suffixes used)
    revokeCalls,  \* per lease address: revoke-kind requests sent to the backend
    revokeAcks,   \* per lease address: revocations answered 204
    hostMu,       \* PluginHost.mu: the caller holding it, "" when free
    hostBackend,  \* PluginHost.backend: Nil or a backend
    client,       \* PluginHost.client: Nil or an RPC client
    pluginCmd,    \* PluginHost.pluginCmd: Nil or a spawned process
    hostPc,       \* where each caller of Start and Stop is
    hostLoc,      \* each caller's operation, local variables and result
    started,      \* Start attempts that got past the "already started" test
    procs,        \* per attempt: the plugin process it spawned
    clients,      \* per attempt: the RPC client it created
    tornDown,     \* per backend: Stop has begun to tear it down
    setup,        \* per backend: what its Setup returned
    calls,        \* per backend: the lifecycle calls the bridge made to it
    oasDoc,       \* PluginHost.oasDoc: Nil or the backend whose schema it is
    storage,      \* InMemoryStorage.data: the keys stored
    mainPc,       \* where main is before it creates the PluginHost
    configStr,    \* *pluginConfig: the value of the -config flag
    config,       \* what parsePluginConfig returned
    locks,        \* per lock: the thread that holds it for writing, the readers
    lockProg      \* per thread: the lock statements its operation has left

\* the state of the Handler (package handlers)
handlerVars == <<backend, leases, heap, leaseMu, now, pc, loc, resp,
                 generated, revokeCalls, revokeAcks>>

\* the state of the PluginHost and of the processes it manages
hostVars == <<hostMu, hostBackend, client, pluginCmd, hostPc, hostLoc,
              started, procs, clients, tornDown, setup, calls, oasDoc>>

\* what the bridge records of the lifecycle of its backends
lifeVars == <<setup, calls, oasDoc>>

\* the state of main before the server runs
mainVars == <<mainPc, configStr, config>>

\* the three locks and the threads' places in their lock statements
lockVars == <<locks, lockProg>>

vars == <<backend, leases, heap, leaseMu, now, pc, loc, resp,
          generated, revokeCalls, revokeAcks,
          hostMu, hostBackend, client, pluginCmd, hostPc, hostLoc,
          started, procs, clients, tornDown, setup, calls, oasDoc, storage,
          mainPc, configStr, config, locks, lockProg>>

NoPath == <<"">>

\* make(map[string]*LeaseInfo)
EmptyMap == [k \in {} |-> Nil]

\* a delete that leaves the key in place (fault injected for C6)
MapKeep(m, key) == m

\* delete(m, key)
MapDelete(m, key) == [k \in (DOMAIN m) \ {key} |-> m[k]]

\* what backend.HandleRequest can return: an error, a nil response, or a
\* response with or without data, secret, auth and warnings
BackendResult(err, isNil, data, secret, auth, warnings) ==
    [err |-> err, isNil |-> isNil, data |-> data, secret |-> secret,
     auth |-> auth, warnings |-> warnings]

\* "return nil, nil"
NilResult == BackendResult("", TRUE, FALSE, NoSecret, FALSE, FALSE)

NoLoc ==
    [kind |-> "none", method |-> "", url |-> NoPath, query |-> "",
     body |-> EmptyBody, backend |-> Nil, operation |-> "", path |-> NoPath,
     data |-> FALSE, leaseID |-> NoPath, increment |-> 0, leaseInfo |-> Nil,
     secret |-> NoSecret, issueTime |-> 0, expireTime |-> 0,
     called |-> "no", result |-> NilResult, running |-> FALSE]

\* the response written: the status, and the fields of the JSON object
\* (FALSE, "absent", NoPath, 0 or -1 for a field that is not in it)
NoResp ==
    [status |-> 0, msg |-> "", data |-> FALSE, lease_id |-> NoPath,
     lease_duration |-> 0, renewable |-> FALSE, warnings |-> FALSE,
     auth |-> "absent", secret |-> "absent", request_id |-> FALSE,
     plugin_running |-> "absent", storage_entries |-> -1]

\* a caller of Start or Stop: the operation, the attempt number that names
\* the process, client and backend of a Start, the error returned, what
\* Initialize and the help request returned, the process a Stop found in
\* h.pluginCmd, the attach string a Start was given, the lines the plugin
\* it launched wrote, and the descriptor it took from either
NoHostLoc ==
    [op |-> "", n |-> Nil, manual |-> FALSE, err |-> "",
     init |-> "", paths |-> "", cmd |-> Nil, attach |-> <<>>,
     stdout |-> <<>>, reattach |-> <<>>]

\* what parsePluginConfig returns: an error or not, and a map that is nil
\* or maps keys to values
ConfigResult(err, isNil, m) == [err |-> err, isNil |-> isNil, m |-> m]

\* before parsePluginConfig has run
NoConfig == ConfigResult(FALSE, TRUE, <<>>)

\* writeVaultError(w, statusCode, message)
writeVaultError(statusCode, message) ==
    [NoResp EXCEPT !.status = statusCode, !.msg = message]

\* Handler.mu (part_000:55), Handler.leaseMu (part_000:57) and PluginHost.mu
\* (plugin_host.go:51), each a sync.RWMutex
LockNames == {"mu", "leaseMu", "hostMu"}

\* the goroutines: those of the requests and the callers of Start and Stop
Threads == Workers \cup Callers

\* a lock that nobody holds
NoLock == [w |-> "", r |-> {}]

Init ==
    /\ backend = Nil
    /\ leases = EmptyMap
    /\ heap = [a \in 1..MaxLeases |-> NoObject]
    /\ leaseMu = FALSE
    /\ now = 0
    /\ pc = [w \in Workers |-> "idle"]
    /\ loc = [w \in Workers |-> NoLoc]
    /\ resp = [w \in Workers |-> NoResp]
    /\ generated = 0
    /\ revokeCalls = [a \in 1..MaxLeases |-> 0]
    /\ revokeAcks = [a \in 1..MaxLeases |-> 0]
    /\ hostMu = ""
    /\ hostBackend = Nil
    /\ client = Nil
    /\ pluginCmd = Nil
    /\ hostPc = [t \in Callers |-> "idle"]
    /\ hostLoc = [t \in Callers |-> NoHostLoc]
    /\ started = 0
    /\ procs = [n \in 1..MaxStarts |-> "none"]
    /\ clients = [n \in 1..MaxStarts |-> "none"]
    /\ tornDown = [n \in 1..MaxStarts |-> FALSE]
    /\ setup = [n \in 1..MaxStarts |-> "none"]
    /\ calls = [n \in 1..MaxStarts |-> <<>>]
    /\ oasDoc = Nil
    /\ storage = {}
    /\ mainPc = "flags"
    /\ configStr = <<>>
    /\ config = NoConfig
    /\ locks = [l \in LockNames |-> NoLock]
    /\ lockProg = [t \in Threads |-> <<>>]

(* ------------------------- the environment ---------------------------- *)
\* a SetBackend that drops the leases when the backend is cleared (fault
\* injected for C36)
SetBackendDroppingLeases(b) ==
    /\ backend' = b
    /\ leases' = IF b = Nil THEN EmptyMap ELSE leases
    /\ UNCHANGED <<heap, leaseMu, now, pc, loc, resp,
                   generated, revokeCalls, revokeAcks>>

\* Handler.SetBackend: Start publishes a backend, Stop publishes nil
SetBackend(b) ==
    /\ backend' = b
    /\ UNCHANGED <<leases, heap, leaseMu, now, pc, loc, resp,
                   generated, revokeCalls, revokeAcks>>

\* a clock whose passing reaps the leases that have expired (fault
\* injected for C23)
TickReaping(d) ==
    /\ now + d <= MaxClock
    /\ now' = now + d
    /\ leases' = [k \in {j \in DOMAIN leases :
                            now + d <= heap[leases[j]].ExpireTime} |-> leases[k]]
    /\ UNCHANGED <<backend, heap, leaseMu, pc, loc, resp,
                   generated, revokeCalls, revokeAcks>>
    /\ UNCHANGED <<hostVars, storage, mainVars, lockVars>>

\* time passes between two steps of the handlers
Tick(d) ==
    /\ now + d <= MaxClock
    /\ now' = now + d
    /\ UNCHANGED <<backend, leases, heap, leaseMu, pc, loc, resp,
                   generated, revokeCalls, revokeAcks>>
    /\ UNCHANGED <<hostVars, storage, mainVars, lockVars>>

\* the garbage collector: an object that neither the lease table nor a
\* handler's leaseInfo refers to is gone
Sweep(h, table, locals) ==
    [a \in DOMAIN h |->
        IF \/ \E k \in DOMAIN table : table[k] = a
           \/ \E w \in Workers : locals[w].leaseInfo = a
        THEN h[a] ELSE NoObject]

\* the handler has returned; the worker serves the next request
Return(w) ==
    /\ pc[w] = "done"
    /\ pc' = [pc EXCEPT ![w] = "idle"]
    /\ loc' = [loc EXCEPT ![w] = NoLoc]
    /\ resp' = [resp EXCEPT ![w] = NoResp]
    /\ heap' = Sweep(heap, leases, loc')
    /\ UNCHANGED <<backend, leases, leaseMu, now,
                   generated, revokeCalls, revokeAcks>>
    /\ UNCHANGED <<hostVars, storage, mainVars, lockVars>>

\* a handler writes its response and returns
Respond(w, r) ==
    /\ pc' = [pc EXCEPT ![w] = "done"]
    /\ resp' = [resp EXCEPT ![w] = r]

(* ------------------------- HandleRequest ------------------------------ *)
\* a gate that lets every request through (fault injected for C1)
BackendMissingNever(b) == FALSE

\* "if h.backend == nil": the request is refused before anything is parsed
BackendMissing(b) == b = Nil

\* the verbs whose body is read and decoded
ReadsBody(method) == method \in {"POST", "PUT"}

\* a decoder that is also run on an empty body (fault injected for C3)
BodyRejectedWhenEmpty(method, body) ==
    /\ ReadsBody(method)
    /\ UnmarshalFails(body)

\* "if len(body) > 0 { json.Unmarshal ... }" fails
BodyRejected(method, body) ==
    /\ ReadsBody(method)
    /\ body.kind # "empty"
    /\ UnmarshalFails(body)

\* "Extract path (remove leading /v1/ and mount prefix)"
NormalizePath(url) ==
    TrimPrefixDir(TrimPrefixDir(url, <<"", "v1">>), MountPath)

\* an if-chain that tests renew before revoke (fault injected for C17)
LifecycleOperationRenewFirst(path, query) ==
    IF HasSuffixSeg(path, "renew") \/ query = "renew" THEN "renew"
    ELSE IF HasSuffixSeg(path, "revoke") \/ query = "revoke" THEN "revoke"
    ELSE IF HasSuffixSeg(path, "rollback") \/ query = "rollback" THEN "rollback"
    ELSE IF HasSuffixSeg(path, "rotate") \/ query = "rotate" THEN "rotate"
    ELSE ""

\* the lifecycle operation a path suffix or the operation query parameter
\* selects, "" when there is none; the if-chain tests them in this order
LifecycleOperation(path, query) ==
    IF HasSuffixSeg(path, "revoke") \/ query = "revoke" THEN "revoke"
    ELSE IF HasSuffixSeg(path, "renew") \/ query = "renew" THEN "renew"
    ELSE IF HasSuffixSeg(path, "rollback") \/ query = "rollback" THEN "rollback"
    ELSE IF HasSuffixSeg(path, "rotate") \/ query = "rotate" THEN "rotate"
    ELSE ""

\* a verb table with DELETE and LIST exchanged (fault injected for C2)
MethodOperationSwapped(method) ==
    CASE method = "GET" -> "read"
      [] method \in {"POST", "PUT"} -> "update"
      [] method = "DELETE" -> "list"
      [] method = "LIST" -> "delete"
      [] OTHER -> ""

\* "switch r.Method": the operation of a verb, "" for an unsupported verb
MethodOperation(method) ==
    CASE method = "GET" -> "read"
      [] method \in {"POST", "PUT"} -> "update"
      [] method = "DELETE" -> "delete"
      [] method = "LIST" -> "list"
      [] OTHER -> ""

\* the operation and path of the logical.Request
ResolveOperation(method, path, query) ==
    LET life == LifecycleOperation(path, query) IN
    IF life # ""
    THEN [operation |-> life, path |-> TrimSuffixSeg(path, life)]
    ELSE [operation |-> MethodOperation(method), path |-> path]

\* generateLeaseID: mountPath/path/<24 hex digits of crypto/rand>.  The n-th
\* call draws the n-th suffix: 96 random bits are taken never to repeat.
generateLeaseID(path, n) == MountPath \o path \o <<ToString(n)>>

\* leaseDuration of a response's secret
LeaseDurationOf(secret) ==
    IF secret.present /\ secret.TTL > 0 THEN secret.TTL
    ELSE DefaultLeaseDuration

\* lines 79-155: read the backend reference under h.mu.RLock, then decode
\* the body and resolve operation and path
HandleRequestGate(w, method, url, query, body) ==
    /\ pc[w] = "idle"
    /\ LET request == [NoLoc EXCEPT !.kind = "request", !.method = method,
                         !.url = url, !.query = query, !.body = body,
                         !.backend = backend]
           resolved == ResolveOperation(method, NormalizePath(url), query)
       IN
       IF BackendMissing(backend)
       THEN /\ loc' = [loc EXCEPT ![w] = request]
            /\ Respond(w, writeVaultError(StatusServiceUnavailable,
                                          "plugin not started"))
       ELSE IF BodyRejected(method, body)
       THEN /\ loc' = [loc EXCEPT ![w] = request]
            /\ Respond(w, writeVaultError(StatusBadRequest,
                                          "failed to parse JSON"))
       ELSE IF resolved.operation = ""
       THEN /\ loc' = [loc EXCEPT ![w] = request]
            /\ Respond(w, writeVaultError(StatusMethodNotAllowed,
                                          "unsupported method"))
       ELSE /\ loc' = [loc EXCEPT ![w] =
                         [request EXCEPT !.operation = resolved.operation,
                                         !.path = resolved.path,
                                         !.data = ReadsBody(method) /\ HasData(body)]]
            /\ pc' = [pc EXCEPT ![w] = "hr_call"]
            /\ UNCHANGED resp
    /\ UNCHANGED <<backend, leases, heap, leaseMu, now,
                   generated, revokeCalls, revokeAcks>>
    /\ UNCHANGED <<hostVars, storage, mainVars, lockVars>>

\* the envelope of lines 174-235, before any lease fields are added
Envelope(r) ==
    IF r.isNil THEN NoResp
    ELSE [NoResp EXCEPT !.data = r.data, !.warnings = r.warnings,
                        !.auth = "null", !.request_id = TRUE]

\* a lease for every answer with data, whatever the operation (fault
\* injected for C22)
MintsLeaseAnyOperation(operation, r) ==
    /\ ~r.isNil
    /\ r.data

\* does this answer mint a lease ("read operations that return data")
MintsLease(operation, r) ==
    /\ ~r.isNil
    /\ r.data
    /\ operation = "read"

\* the LeaseInfo of lines 202-211: t1 and t2 are the two readings of the
\* clock, "IssueTime: time.Now()" and "ExpireTime: time.Now().Add(...)"
NewLease(id, path, secret, t1, t2) ==
    LeaseInfo(id, path, secret, t1, t2 + LeaseDurationOf(secret),
              LeaseDurationOf(secret))

\* an error mapping that answers 500 for every error (fault injected for
\* C16)
ErrorResponseAlways500(err) ==
    writeVaultError(StatusInternalServerError, err)

\* lines 160-172: the sentinel logical.ErrPermissionDenied ("denied") is
\* answered 403, any other error 500 with err.Error()
ErrorResponse(err) ==
    IF err = "denied"
    THEN writeVaultError(StatusForbidden, "permission denied")
    ELSE writeVaultError(StatusInternalServerError, err)

\* lines 157-207: the backend call, the error mapping, the envelope and,
\* for a read with data, the lease ID and the issue time
HandleRequestCall(w, r) ==
    /\ pc[w] = "hr_call"
    /\ IF r.err # ""
       THEN /\ Respond(w, ErrorResponse(r.err))
            /\ loc' = [loc EXCEPT ![w].called = "err", ![w].result = r]
            /\ UNCHANGED generated
       ELSE IF MintsLease(loc[w].operation, r)
       THEN /\ generated < MaxLeases
            /\ generated' = generated + 1
            /\ loc' = [loc EXCEPT
                         ![w].called = "ok",
                         ![w].result = r,
                         ![w].leaseID = generateLeaseID(loc[w].path, generated + 1),
                         ![w].leaseInfo = generated + 1,
                         ![w].secret = r.secret,
                         ![w].issueTime = now]
            /\ resp' = [resp EXCEPT ![w] = Envelope(r)]
            /\ pc' = [pc EXCEPT ![w] = "hr_store"]
       ELSE /\ Respond(w, [Envelope(r) EXCEPT !.status = StatusOK])
            /\ loc' = [loc EXCEPT ![w].called = "ok", ![w].result = r]
            /\ UNCHANGED generated
    /\ UNCHANGED <<backend, leases, heap, leaseMu, now, revokeCalls, revokeAcks>>
    /\ UNCHANGED <<hostVars, storage, mainVars, lockVars>>

\* lines 208-239: the expiry from a second reading of the clock, the lease
\* stored under h.leaseMu, and the answer 200 with the lease fields
HandleRequestStore(w) ==
    /\ pc[w] = "hr_store"
    /\ ~leaseMu
    /\ LET lease == NewLease(loc[w].leaseID, loc[w].path, loc[w].secret,
                             loc[w].issueTime, now)
       IN
       /\ heap' = [heap EXCEPT ![loc[w].leaseInfo] = lease]
       /\ leases' = leases @@ (lease.LeaseID :> loc[w].leaseInfo)
       /\ Respond(w, [resp[w] EXCEPT
                        !.status = StatusOK,
                        !.lease_id = lease.LeaseID,
                        !.lease_duration = Seconds(lease.Duration),
                        !.renewable = TRUE])
    /\ UNCHANGED <<backend, leaseMu, now, loc, generated,
                   revokeCalls, revokeAcks>>
    /\ UNCHANGED <<hostVars, storage, mainVars, lockVars>>

(* ------------------------- lease endpoints ---------------------------- *)
\* "r.Method != http.MethodPut && r.Method != http.MethodPost"
LeaseMethodAllowed(method) == method \in {"PUT", "POST"}

\* leaseID, ok := requestData["lease_id"].(string): the empty string when
\* the member is absent or no string
LeaseIDOf(body) ==
    LET v == Member(body, "lease_id") IN
    IF v.t = "string" THEN v.s ELSE <<"">>

\* "!ok || leaseID == """
LeaseIDMissing(id) == id = <<"">>

\* time.ParseDuration on the strings used here: "1h" is a duration, a bare
\* number or a word is rejected (ok FALSE)
ParseDuration(s) ==
    CASE s = <<"1h">> -> [ok |-> TRUE, d |-> Hour]
      [] OTHER -> [ok |-> FALSE, d |-> 0]

\* strconv.Atoi on the strings used here
Atoi(s) ==
    CASE s = <<"90">> -> [ok |-> TRUE, n |-> 90]
      [] OTHER -> [ok |-> FALSE, n |-> 0]

\* lines 409-423: the increment a body asks for, 0 when it names none
RequestedIncrement(body) ==
    LET v == Member(body, "increment") IN
    CASE v.t = "number" -> v.n * Second
      [] v.t = "string" ->
            IF ParseDuration(v.s).ok THEN ParseDuration(v.s).d
            ELSE IF Atoi(v.s).ok THEN Atoi(v.s).n * Second
            ELSE 0
      [] OTHER -> 0

\* a default of one hour (fault injected for C5)
EffectiveIncrementHour(requested) ==
    IF requested = 0 THEN Hour ELSE requested

\* lines 425-428: "if increment == 0 { increment = 24 * time.Hour }"
EffectiveIncrement(requested) ==
    IF requested = 0 THEN DefaultLeaseDuration ELSE requested

\* an expiry test that also rejects at the instant of expiry (fault
\* injected for C8)
LeaseExpiredAtOrAfter(t, expire) == t >= expire

\* "time.Now().After(leaseInfo.ExpireTime)"
LeaseExpired(t, expire) == t > expire

\* "newExpireTime := time.Now().Add(increment)"
NewExpireTime(t, increment) == t + increment

\* lines 380-428: method, body, lease_id and increment
HandleLeaseRenewParse(w, method, body) ==
    /\ pc[w] = "idle"
    /\ LET request == [NoLoc EXCEPT !.kind = "renew", !.method = method,
                         !.body = body]
       IN
       IF ~LeaseMethodAllowed(method)
       THEN /\ loc' = [loc EXCEPT ![w] = request]
            /\ Respond(w, writeVaultError(StatusMethodNotAllowed,
                                          "method not allowed"))
       ELSE IF body.kind # "empty" /\ UnmarshalFails(body)
       THEN /\ loc' = [loc EXCEPT ![w] = request]
            /\ Respond(w, writeVaultError(StatusBadRequest,
                                          "failed to parse JSON"))
       ELSE IF LeaseIDMissing(LeaseIDOf(body))
       THEN /\ loc' = [loc EXCEPT ![w] = request]
            /\ Respond(w, writeVaultError(StatusBadRequest,
                                          "lease_id is required"))
       ELSE /\ loc' = [loc EXCEPT ![w] =
                         [request EXCEPT
                            !.leaseID = LeaseIDOf(body),
                            !.increment =
                               EffectiveIncrement(RequestedIncrement(body))]]
            /\ pc' = [pc EXCEPT ![w] = "lr_lookup"]
            /\ UNCHANGED resp
    /\ UNCHANGED <<backend, leases, heap, leaseMu, now,
                   generated, revokeCalls, revokeAcks>>
    /\ UNCHANGED <<hostVars, storage, mainVars, lockVars>>

\* lines 430-437: look the lease up under h.leaseMu
HandleLeaseRenewLookup(w) ==
    /\ pc[w] = "lr_lookup"
    /\ ~leaseMu
    /\ IF loc[w].leaseID \notin DOMAIN leases
       THEN /\ Respond(w, writeVaultError(StatusNotFound, "lease not found"))
            /\ UNCHANGED loc
       ELSE /\ loc' = [loc EXCEPT ![w].leaseInfo = leases[loc[w].leaseID]]
            /\ pc' = [pc EXCEPT ![w] = "lr_check"]
            /\ UNCHANGED resp
    /\ UNCHANGED <<backend, leases, heap, leaseMu, now,
                   generated, revokeCalls, revokeAcks>>
    /\ UNCHANGED <<hostVars, storage, mainVars, lockVars>>

\* lines 439-449: the renewable and expiry checks on the object found,
\* read through the pointer after the lock is released
HandleLeaseRenewCheck(w) ==
    /\ pc[w] = "lr_check"
    /\ LET leaseInfo == heap[loc[w].leaseInfo] IN
       IF ~leaseInfo.Renewable
       THEN /\ Respond(w, writeVaultError(StatusBadRequest,
                                          "lease is not renewable"))
       ELSE IF LeaseExpired(now, leaseInfo.ExpireTime)
       THEN /\ Respond(w, writeVaultError(StatusBadRequest,
                                          "lease has expired"))
       ELSE /\ pc' = [pc EXCEPT ![w] = "lr_call"]
            /\ UNCHANGED resp
    /\ UNCHANGED <<backend, leases, heap, leaseMu, now, loc,
                   generated, revokeCalls, revokeAcks>>
    /\ UNCHANGED <<hostVars, storage, mainVars, lockVars>>

\* lines 451-479: the new expiry from a second reading of the clock, the
\* backend reference read under h.mu.RLock and, if there is a backend, the
\* renew-kind request sent to it
HandleLeaseRenewCall(w, ok) ==
    /\ pc[w] = "lr_call"
    /\ LET renewal == [loc[w] EXCEPT
                         !.expireTime = NewExpireTime(now, loc[w].increment),
                         !.backend = backend]
       IN
       IF backend = Nil
       THEN /\ ok
            /\ loc' = [loc EXCEPT ![w] = renewal]
            /\ pc' = [pc EXCEPT ![w] = "lr_update"]
            /\ UNCHANGED resp
       ELSE IF ok
       THEN /\ loc' = [loc EXCEPT ![w] = [renewal EXCEPT !.called = "ok"]]
            /\ pc' = [pc EXCEPT ![w] = "lr_update"]
            /\ UNCHANGED resp
       ELSE /\ loc' = [loc EXCEPT ![w] = [renewal EXCEPT !.called = "err"]]
            /\ Respond(w, writeVaultError(StatusInternalServerError,
                                          "failed to renew lease"))
    /\ UNCHANGED <<backend, leases, heap, leaseMu, now,
                   generated, revokeCalls, revokeAcks>>
    /\ UNCHANGED <<hostVars, storage, mainVars, lockVars>>

\* a renewal that also restarts the issue time (fault injected for C24)
RenewedReissued(lease, expire, dur) ==
    [lease EXCEPT !.ExpireTime = expire, !.Duration = dur,
                  !.IssueTime = expire - dur]

\* lines 483-484: the two assignments to the record in the table
Renewed(lease, expire, dur) ==
    [lease EXCEPT !.ExpireTime = expire, !.Duration = dur]

\* lines 481-499: "h.leases[leaseID].ExpireTime = newExpireTime" under
\* h.leaseMu.  For a key that is gone the map yields a nil *LeaseInfo and the
\* assignment panics: the goroutine dies between Lock and Unlock, net/http
\* recovers the panic and closes the connection without a response.
HandleLeaseRenewUpdate(w) ==
    /\ pc[w] = "lr_update"
    /\ ~leaseMu
    /\ IF loc[w].leaseID \in DOMAIN leases
       THEN /\ heap' = [heap EXCEPT
                          ![leases[loc[w].leaseID]] =
                             Renewed(@, loc[w].expireTime, loc[w].increment)]
            /\ Respond(w, [NoResp EXCEPT
                             !.status = StatusOK,
                             !.lease_id = loc[w].leaseID,
                             !.lease_duration = Seconds(loc[w].increment),
                             !.renewable = TRUE,
                             !.data = TRUE])
            /\ UNCHANGED <<leaseMu, loc>>
       ELSE /\ leaseMu' = TRUE
            /\ pc' = [pc EXCEPT ![w] = "panicked"]
            /\ loc' = [loc EXCEPT ![w].leaseInfo = Nil]
            /\ heap' = Sweep(heap, leases, loc')
            /\ UNCHANGED resp
    /\ UNCHANGED <<backend, leases, now, generated, revokeCalls, revokeAcks>>
    /\ UNCHANGED <<hostVars, storage, mainVars, lockVars>>

\* the connection of a panicked handler is closed; the worker serves again
Recover(w) ==
    /\ pc[w] = "panicked"
    /\ pc' = [pc EXCEPT ![w] = "idle"]
    /\ loc' = [loc EXCEPT ![w] = NoLoc]
    /\ UNCHANGED <<backend, leases, heap, leaseMu, now, resp,
                   generated, revokeCalls, revokeAcks>>
    /\ UNCHANGED <<hostVars, storage, mainVars, lockVars>>

\* lines 502-529: method, body and lease_id of a revocation by body
HandleLeaseRevokeParse(w, method, body) ==
    /\ pc[w] = "idle"
    /\ LET request == [NoLoc EXCEPT !.kind = "revoke", !.method = method,
                         !.body = body]
       IN
       IF ~LeaseMethodAllowed(method)
       THEN /\ loc' = [loc EXCEPT ![w] = request]
            /\ Respond(w, writeVaultError(StatusMethodNotAllowed,
                                          "method not allowed"))
       ELSE IF body.kind # "empty" /\ UnmarshalFails(body)
       THEN /\ loc' = [loc EXCEPT ![w] = request]
            /\ Respond(w, writeVaultError(StatusBadRequest,
                                          "failed to parse JSON"))
       ELSE IF LeaseIDMissing(LeaseIDOf(body))
       THEN /\ loc' = [loc EXCEPT ![w] = request]
            /\ Respond(w, writeVaultError(StatusBadRequest,
                                          "lease_id is required"))
       ELSE /\ loc' = [loc EXCEPT ![w] =
                         [request EXCEPT !.leaseID = LeaseIDOf(body)]]
            /\ pc' = [pc EXCEPT ![w] = "rv_remove"]
            /\ UNCHANGED resp
    /\ UNCHANGED <<backend, leases, heap, leaseMu, now,
                   generated, revokeCalls, revokeAcks>>
    /\ UNCHANGED <<hostVars, storage, mainVars, lockVars>>

\* lines 531-541: look the lease up and delete it in one critical section
HandleLeaseRevokeRemove(w) ==
    /\ pc[w] = "rv_remove"
    /\ ~leaseMu
    /\ IF loc[w].leaseID \in DOMAIN leases
       THEN /\ leases' = MapDelete(leases, loc[w].leaseID)
            /\ loc' = [loc EXCEPT ![w].leaseInfo = leases[loc[w].leaseID]]
            /\ pc' = [pc EXCEPT ![w] = "rv_notify"]
            /\ UNCHANGED resp
       ELSE /\ Respond(w, writeVaultError(StatusNotFound, "lease not found"))
            /\ UNCHANGED <<leases, loc>>
    /\ UNCHANGED <<backend, heap, leaseMu, now,
                   generated, revokeCalls, revokeAcks>>
    /\ UNCHANGED <<hostVars, storage, mainVars, lockVars>>

\* a revocation that reports a failed notification (fault injected for C9)
RevokeStatusStrict(err) ==
    IF err THEN StatusInternalServerError ELSE StatusNoContent

\* the status of a revocation whose notification returned err (TRUE) or
\* not: the error is logged and "w.WriteHeader(http.StatusNoContent)" follows
RevokeStatus(err) == StatusNoContent

\* lines 543-572: read the backend reference, send it the revoke-kind
\* request if there is one, ignore the outcome and answer 204
HandleLeaseRevokeNotify(w, ok) ==
    /\ pc[w] = "rv_notify"
    /\ IF backend # Nil
       THEN /\ revokeCalls' = [revokeCalls EXCEPT ![loc[w].leaseInfo] = @ + 1]
            /\ loc' = [loc EXCEPT ![w].backend = backend,
                                  ![w].called = IF ok THEN "ok" ELSE "err"]
       ELSE /\ ok
            /\ UNCHANGED <<revokeCalls, loc>>
    /\ revokeAcks' = [revokeAcks EXCEPT ![loc[w].leaseInfo] = @ + 1]
    /\ Respond(w, [NoResp EXCEPT !.status = RevokeStatus(backend # Nil /\ ~ok)])
    /\ UNCHANGED <<backend, leases, heap, leaseMu, now, generated>>
    /\ UNCHANGED <<hostVars, storage, mainVars, lockVars>>

\* "/v1/sys/leases/revoke/"
RevokePrefix == <<"", "v1", "sys", "leases", "revoke">>

\* lines 575-589: method and the lease ID cut from the URL path
HandleLeaseRevokeByPathParse(w, method, url) ==
    /\ pc[w] = "idle"
    /\ LET request == [NoLoc EXCEPT !.kind = "revokeByPath",
                         !.method = method, !.url = url]
           path == TrimPrefixDir(url, RevokePrefix)
       IN
       IF ~LeaseMethodAllowed(method)
       THEN /\ loc' = [loc EXCEPT ![w] = request]
            /\ Respond(w, writeVaultError(StatusMethodNotAllowed,
                                          "method not allowed"))
       ELSE IF path = <<"">>
       THEN /\ loc' = [loc EXCEPT ![w] = request]
            /\ Respond(w, writeVaultError(StatusBadRequest,
                                          "lease_id is required in path"))
       ELSE /\ loc' = [loc EXCEPT ![w] = [request EXCEPT !.leaseID = path]]
            /\ pc' = [pc EXCEPT ![w] = "rp_remove"]
            /\ UNCHANGED resp
    /\ UNCHANGED <<backend, leases, heap, leaseMu, now,
                   generated, revokeCalls, revokeAcks>>
    /\ UNCHANGED <<hostVars, storage, mainVars, lockVars>>

\* lines 591-601
HandleLeaseRevokeByPathRemove(w) ==
    /\ pc[w] = "rp_remove"
    /\ ~leaseMu
    /\ IF loc[w].leaseID \in DOMAIN leases
       THEN /\ leases' = MapDelete(leases, loc[w].leaseID)
            /\ loc' = [loc EXCEPT ![w].leaseInfo = leases[loc[w].leaseID]]
            /\ pc' = [pc EXCEPT ![w] = "rp_notify"]
            /\ UNCHANGED resp
       ELSE /\ Respond(w, writeVaultError(StatusNotFound, "lease not found"))
            /\ UNCHANGED <<leases, loc>>
    /\ UNCHANGED <<backend, heap, leaseMu, now,
                   generated, revokeCalls, revokeAcks>>
    /\ UNCHANGED <<hostVars, storage, mainVars, lockVars>>

\* a revocation by path that does not notify the backend (fault injected
\* for C34)
HandleLeaseRevokeByPathSilent(w, ok) ==
    /\ pc[w] = "rp_notify"
    /\ ok
    /\ revokeAcks' = [revokeAcks EXCEPT ![loc[w].leaseInfo] = @ + 1]
    /\ Respond(w, [NoResp EXCEPT !.status = StatusNoContent])
    /\ UNCHANGED <<backend, leases, heap, leaseMu, now, generated,
                   revokeCalls, loc>>
    /\ UNCHANGED <<hostVars, storage, mainVars, lockVars>>

\* lines 603-632
HandleLeaseRevokeByPathNotify(w, ok) ==
    /\ pc[w] = "rp_notify"
    /\ IF backend # Nil
       THEN /\ revokeCalls' = [revokeCalls EXCEPT ![loc[w].leaseInfo] = @ + 1]
            /\ loc' = [loc EXCEPT ![w].backend = backend,
                                  ![w].called = IF ok THEN "ok" ELSE "err"]
       ELSE /\ ok
            /\ UNCHANGED <<revokeCalls, loc>>
    /\ revokeAcks' = [revokeAcks EXCEPT ![loc[w].leaseInfo] = @ + 1]
    /\ Respond(w, [NoResp EXCEPT !.status = RevokeStatus(backend # Nil /\ ~ok)])
    /\ UNCHANGED <<backend, leases, heap, leaseMu, now, generated>>
    /\ UNCHANGED <<hostVars, storage, mainVars, lockVars>>

(* ------------------------- parsePluginConfig -------------------------- *)
\* A configuration string is the sequence of its characters.
\* the characters a -config value is made of here: a letter, the two
\* separators, a blank and the brace that announces JSON.  No string over
\* them is a JSON object, since none has a closing brace.
Chars == {"k", "=", ",", " ", "{"}

\* the index of the first ch in s, 0 when there is none (strings.Index + 1)
Index(s, ch) ==
    IF \E i \in 1..Len(s) : s[i] = ch
    THEN CHOOSE i \in 1..Len(s) :
            s[i] = ch /\ \A j \in 1..(i - 1) : s[j] # ch
    ELSE 0

\* the index of the last ch in s, 0 when there is none
LastIndex(s, ch) ==
    IF \E i \in 1..Len(s) : s[i] = ch
    THEN CHOOSE i \in 1..Len(s) :
            s[i] = ch /\ \A j \in (i + 1)..Len(s) : s[j] # ch
    ELSE 0

RECURSIVE TrimLeft(_)
TrimLeft(s) == IF s # <<>> /\ Head(s) = " " THEN TrimLeft(Tail(s)) ELSE s

RECURSIVE TrimRight(_)
TrimRight(s) ==
    IF s # <<>> /\ s[Len(s)] = " " THEN TrimRight(SubSeq(s, 1, Len(s) - 1))
    ELSE s

\* strings.TrimSpace(s)
TrimSpace(s) == TrimRight(TrimLeft(s))

\* strings.Split(s, sep) for a one-character sep: the pieces between the
\* separators, one piece (s itself) when there is no separator
RECURSIVE Split(_, _)
Split(s, sep) ==
    LET i == Index(s, sep) IN
    IF i = 0 THEN <<s>>
    ELSE <<SubSeq(s, 1, i - 1)>> \o Split(SubSeq(s, i + 1, Len(s)), sep)

\* a cut at the last separator (fault injected for C21)
SplitAtLast(s, sep) ==
    LET i == LastIndex(s, sep) IN
    IF i = 0 THEN <<s>>
    ELSE <<SubSeq(s, 1, i - 1), SubSeq(s, i + 1, Len(s))>>

\* strings.SplitN(s, sep, 2): a cut at the first separator
SplitN2(s, sep) ==
    LET i == Index(s, sep) IN
    IF i = 0 THEN <<s>>
    ELSE <<SubSeq(s, 1, i - 1), SubSeq(s, i + 1, Len(s))>>

\* "result[key] = value"
MapPut(m, key, value) ==
    [k \in DOMAIN m \cup {key} |-> IF k = key THEN value ELSE m[k]]

\* lines 37-53: the loop over the pairs from the i-th on, result being the
\* map filled so far
RECURSIVE ParsePairs(_, _, _)
ParsePairs(pairs, i, result) ==
    IF i > Len(pairs) THEN ConfigResult(FALSE, FALSE, result)
    ELSE LET pair == TrimSpace(pairs[i])
             parts == SplitN2(pair, "=")
         IN
         IF pair = <<>> THEN ParsePairs(pairs, i + 1, result)
         ELSE IF Len(parts) # 2 THEN ConfigResult(TRUE, TRUE, <<>>)
         ELSE ParsePairs(pairs, i + 1,
                         MapPut(result, TrimSpace(parts[1]), TrimSpace(parts[2])))

\* strings.HasPrefix(strings.TrimSpace(configStr), "{")
LooksLikeJSON(s) == TrimSpace(s) # <<>> /\ Head(TrimSpace(s)) = "{"

\* parsePluginConfig(configStr).  json.Unmarshal fails on every string
\* over Chars, so the JSON branch returns its error.
parsePluginConfig(str) ==
    IF str = <<>> THEN ConfigResult(FALSE, FALSE, <<>>)
    ELSE IF LooksLikeJSON(str) THEN ConfigResult(TRUE, TRUE, <<>>)
    ELSE ParsePairs(Split(str, ","), 1, <<>>)

\* the values of the -config flag
ConfigStrings == UNION {[1..n -> Chars] : n \in 0..MaxConfigLen}

\* main: flag.Parse() sets *pluginConfig
FlagParse(s) ==
    /\ mainPc = "flags"
    /\ configStr' = s
    /\ mainPc' = "parse"
    /\ UNCHANGED config
    /\ UNCHANGED <<hostVars, storage>>
    /\ UNCHANGED handlerVars
    /\ UNCHANGED lockVars

\* main: "config, err := parsePluginConfig(*pluginConfig)", and
\* log.Fatalf on an error
ParseConfig ==
    /\ mainPc = "parse"
    /\ config' = parsePluginConfig(configStr)
    /\ mainPc' = IF config'.err THEN "fatal" ELSE "host"
    /\ UNCHANGED configStr
    /\ UNCHANGED <<hostVars, storage>>
    /\ UNCHANGED handlerVars
    /\ UNCHANGED lockVars

(* ------------------------- PluginHost --------------------------------- *)
\* a test that never finds the bridge started (fault injected for C13)
AlreadyStartedNever(b) == FALSE

\* "if h.backend != nil { return fmt.Errorf("plugin already started") }"
AlreadyStarted(b) == b # Nil

\* A line of the plugin's output, and an attach string, is the sequence of
\* its pieces: the delimiter "|", blanks, and words that hold neither.

\* strings.Contains(line, "|unix|") || strings.Contains(line, "|tcp|")
HasMarker(line) ==
    \E i \in 1..(Len(line) - 2) :
       /\ line[i] = "|"
       /\ line[i + 1] \in {"unix", "tcp"}
       /\ line[i + 2] = "|"

\* a scan that keeps the last line with a marker (fault injected for C28)
RECURSIVE ScanReattachLast(_)
ScanReattachLast(stdout) ==
    IF stdout = <<>> THEN <<>>
    ELSE IF HasMarker(stdout[Len(stdout)]) THEN TrimSpace(stdout[Len(stdout)])
    ELSE ScanReattachLast(SubSeq(stdout, 1, Len(stdout) - 1))

\* lines 163-173: the scanner loop over the lines of the plugin's output
\* until a line has a marker; "" when the output ends first
RECURSIVE ScanReattach(_)
ScanReattach(stdout) ==
    IF stdout = <<>> THEN <<>>
    ELSE IF HasMarker(Head(stdout)) THEN TrimSpace(Head(stdout))
    ELSE ScanReattach(Tail(stdout))

\* strings.TrimSuffix(s, suffix) for a one-character suffix
TrimSuffix(s, suffix) ==
    IF s # <<>> /\ s[Len(s)] = suffix THEN SubSeq(s, 1, Len(s) - 1) ELSE s

\* "parts := strings.Split(strings.TrimSuffix(str, "|"), "|")"
DescriptorParts(str) == Split(TrimSuffix(str, "|"), "|")

\* "if len(parts) < 5"
DescriptorRejected(str) == Len(DescriptorParts(str)) < 5

\* what launching the plugin and scanning its output can come to
LaunchOutcomes == {"spawnFailed", "noDescriptor", "badDescriptor", "descriptor"}

\* lines 158-186: what the launch comes to for a process that could be
\* spawned or not and that writes these lines
LaunchOutcome(spawned, stdout) ==
    IF ~spawned THEN "spawnFailed"
    ELSE IF ScanReattach(stdout) = <<>> THEN "noDescriptor"
    ELSE IF DescriptorRejected(ScanReattach(stdout)) THEN "badDescriptor"
    ELSE "descriptor"

\* what connecting to the plugin and setting the backend up can come to
ConnectOutcomes == {"connection", "dispense", "type", "setup", "ok"}

\* the error Start returns for a failed launch or connection
StartError(outcome) ==
    CASE outcome = "spawnFailed" -> "failed to start plugin process"
      [] outcome = "noDescriptor" -> "failed to get reattach info from plugin"
      [] outcome = "badDescriptor" -> "invalid reattach string format"
      [] outcome = "connection" -> "failed to get RPC client"
      [] outcome = "dispense" -> "failed to dispense plugin"
      [] outcome = "type" -> "dispensed plugin is not a logical.Backend"
      [] outcome = "setup" -> "failed to setup backend"
      [] OTHER -> ""

\* Start returns: the deferred h.mu.Unlock runs
StartReturns(t, n, manual, err) ==
    /\ hostMu' = ""
    /\ hostPc' = [hostPc EXCEPT ![t] = "returned"]
    /\ hostLoc' = [hostLoc EXCEPT ![t] =
                     [NoHostLoc EXCEPT !.op = "Start", !.n = n,
                                       !.manual = manual, !.err = err]]

\* lines 85-204: Start takes h.mu and tests h.backend.  With an attach
\* string nothing is launched and a string with too few fields is an error.
\* Otherwise the plugin is spawned and its output scanned for the reattach
\* line; a plugin that prints none, or one with too few fields, is killed.
\* With a line that is accepted Start releases h.mu (line 202).
StartBegin(t, attachString, spawned, stdout) ==
    /\ hostPc[t] = "idle"
    /\ hostMu = ""
    /\ IF AlreadyStarted(hostBackend)
       THEN /\ StartReturns(t, Nil, FALSE, "plugin already started")
            /\ UNCHANGED <<started, procs>>
       ELSE /\ started < MaxStarts
            /\ started' = started + 1
            /\ LET outcome == LaunchOutcome(spawned, stdout)
                   entered == [NoHostLoc EXCEPT
                                 !.op = "Start",
                                 !.n = started + 1,
                                 !.attach = attachString,
                                 !.stdout = IF attachString = <<>> /\ spawned
                                            THEN stdout ELSE <<>>]
               IN
               IF attachString # <<>> /\ DescriptorRejected(attachString)
               THEN /\ hostMu' = ""
                    /\ hostPc' = [hostPc EXCEPT ![t] = "returned"]
                    /\ hostLoc' = [hostLoc EXCEPT ![t] =
                                     [entered EXCEPT
                                        !.err = "invalid attach string format",
                                        !.reattach = attachString]]
                    /\ UNCHANGED procs
               ELSE IF attachString # <<>>
               THEN /\ hostMu' = t
                    /\ hostPc' = [hostPc EXCEPT ![t] = "st_connect"]
                    /\ hostLoc' = [hostLoc EXCEPT ![t] =
                                     [entered EXCEPT !.reattach = attachString]]
                    /\ UNCHANGED procs
               ELSE IF outcome = "spawnFailed"
               THEN /\ hostMu' = ""
                    /\ hostPc' = [hostPc EXCEPT ![t] = "returned"]
                    /\ hostLoc' = [hostLoc EXCEPT ![t] =
                                     [entered EXCEPT !.err = StartError(outcome)]]
                    /\ UNCHANGED procs
               ELSE IF outcome \in {"noDescriptor", "badDescriptor"}
               THEN /\ hostMu' = ""
                    /\ hostPc' = [hostPc EXCEPT ![t] = "returned"]
                    /\ hostLoc' = [hostLoc EXCEPT ![t] =
                                     [entered EXCEPT
                                        !.manual = TRUE,
                                        !.err = StartError(outcome),
                                        !.reattach = ScanReattach(stdout)]]
                    /\ procs' = [procs EXCEPT ![started + 1] = "killed"]
               ELSE /\ hostMu' = ""
                    /\ hostPc' = [hostPc EXCEPT ![t] = "st_store"]
                    /\ hostLoc' = [hostLoc EXCEPT ![t] =
                                     [entered EXCEPT
                                        !.manual = TRUE,
                                        !.reattach = ScanReattach(stdout)]]
                    /\ procs' = [procs EXCEPT ![started + 1] = "running"]
    /\ UNCHANGED <<hostBackend, client, pluginCmd, clients, tornDown, storage>>
    /\ UNCHANGED lifeVars
    /\ UNCHANGED handlerVars
    /\ UNCHANGED <<mainVars, lockVars>>

\* line 203: "h.pluginCmd = cmd", written while h.mu is not held
StartStoreCmd(t) ==
    /\ hostPc[t] = "st_store"
    /\ pluginCmd' = hostLoc[t].n
    /\ hostPc' = [hostPc EXCEPT ![t] = "st_relock"]
    /\ UNCHANGED <<hostMu, hostBackend, client, hostLoc, started, procs,
                   clients, tornDown, storage>>
    /\ UNCHANGED lifeVars
    /\ UNCHANGED handlerVars
    /\ UNCHANGED <<mainVars, lockVars>>

\* line 204: "h.mu.Lock()"
StartRelock(t) ==
    /\ hostPc[t] = "st_relock"
    /\ hostMu = ""
    /\ hostMu' = t
    /\ hostPc' = [hostPc EXCEPT ![t] = "st_connect"]
    /\ UNCHANGED <<hostBackend, client, pluginCmd, hostLoc, started, procs,
                   clients, tornDown, storage>>
    /\ UNCHANGED lifeVars
    /\ UNCHANGED handlerVars
    /\ UNCHANGED <<mainVars, lockVars>>

\* a Start that goes on whatever Setup returned (fault injected for C25)
SetupErrorIgnored(outcome) == outcome \in {"setup", "ok"}

\* line 258: "if err := backend.Setup(...); err != nil" is not taken
SetupSucceeded(outcome) == outcome = "ok"

\* lines 223-261: the RPC client is created and connected, the backend
\* dispensed and set up; on a failure the client is killed and Start returns
\* the error.  A plugin process that was killed cannot be connected to.
StartConnect(t, outcome) ==
    /\ hostPc[t] = "st_connect"
    /\ hostMu = t
    /\ hostLoc[t].manual /\ procs[hostLoc[t].n] # "running" => outcome # "ok"
    /\ LET n == hostLoc[t].n IN
       /\ IF outcome \in {"setup", "ok"}
          THEN /\ calls' = [calls EXCEPT ![n] = Append(@, "Setup")]
               /\ setup' = [setup EXCEPT ![n] =
                              IF outcome = "ok" THEN "ok" ELSE "failed"]
          ELSE UNCHANGED <<calls, setup>>
       /\ IF SetupSucceeded(outcome)
          THEN /\ clients' = [clients EXCEPT ![n] = "running"]
               /\ hostPc' = [hostPc EXCEPT ![t] = "st_publish"]
               /\ UNCHANGED <<hostMu, hostLoc>>
          ELSE /\ clients' = [clients EXCEPT ![n] = "killed"]
               /\ StartReturns(t, n, hostLoc[t].manual, StartError(outcome))
    /\ UNCHANGED <<hostBackend, client, pluginCmd, started, procs, tornDown,
                   oasDoc, storage>>
    /\ UNCHANGED handlerVars
    /\ UNCHANGED <<mainVars, lockVars>>

\* lines 263-265: "h.backend = backend", "h.client = client" and
\* "h.handler.SetBackend(backend)"
StartPublish(t) ==
    /\ hostPc[t] = "st_publish"
    /\ hostBackend' = hostLoc[t].n
    /\ client' = hostLoc[t].n
    /\ SetBackend(hostLoc[t].n)
    /\ hostPc' = [hostPc EXCEPT ![t] = "st_init"]
    /\ UNCHANGED <<hostMu, pluginCmd, hostLoc, started, procs, clients,
                   tornDown, storage>>
    /\ UNCHANGED lifeVars
    /\ UNCHANGED <<mainVars, lockVars>>

\* lines 268 and 305-316: initializeBackendLifecycle calls Initialize on the
\* backend it is given; an error is logged
StartInitialize(t, ok) ==
    /\ hostPc[t] = "st_init"
    /\ calls' = [calls EXCEPT ![hostLoc[t].n] = Append(@, "Initialize")]
    /\ hostLoc' = [hostLoc EXCEPT ![t].init = IF ok THEN "ok" ELSE "err"]
    /\ hostPc' = [hostPc EXCEPT ![t] = "st_paths"]
    /\ UNCHANGED <<hostMu, hostBackend, client, pluginCmd, started, procs,
                   clients, tornDown, setup, oasDoc, storage>>
    /\ UNCHANGED handlerVars
    /\ UNCHANGED <<mainVars, lockVars>>

\* what the help request of listPluginPaths can come to: an error, a nil
\* response, a response without data, data without a schema object, a
\* schema map that does not decode, a schema map that decodes, a document
PathsOutcomes ==
    {"error", "nil", "noData", "noSchema", "undecodable", "map", "document"}

\* a discovery that stores a schema whatever the answer (fault injected for
\* C26)
SchemaStoredAlways(outcome) == TRUE

\* lines 346-372: is "h.oasDoc = backendDoc" reached
SchemaStored(outcome) == outcome \in {"map", "document"}

\* lines 273-275 and 333-374: listPluginPaths sends the help request to
\* h.backend and stores the schema it gets; then Start returns nil
StartListPaths(t, outcome) ==
    /\ hostPc[t] = "st_paths"
    /\ calls' = [calls EXCEPT ![hostBackend] = Append(@, "HelpOperation")]
    /\ oasDoc' = IF SchemaStored(outcome) THEN hostBackend ELSE oasDoc
    /\ hostMu' = ""
    /\ hostPc' = [hostPc EXCEPT ![t] = "returned"]
    /\ hostLoc' = [hostLoc EXCEPT ![t].paths = outcome]
    /\ UNCHANGED <<hostBackend, client, pluginCmd, started, procs, clients,
                   tornDown, setup, storage>>
    /\ UNCHANGED handlerVars
    /\ UNCHANGED <<mainVars, lockVars>>

\* a Stop that runs the backend's hooks whatever h.backend is (fault
\* injected for C14)
HooksDueAlways(b) == TRUE

\* "if h.backend != nil": InvalidateKey("shutdown") and Cleanup are called
HooksDue(b) == b # Nil

\* a kill that kills nothing (fault injected for C27)
KillNothing(table, n) == table

\* "client.Kill()" and "h.pluginCmd.Process.Kill()"
Kill(table, n) == IF n = Nil THEN table ELSE [table EXCEPT ![n] = "killed"]

\* the key of the invalidate hook
ShutdownKey == "shutdown"

\* the call "InvalidateKey(ctx, key)"
InvalidateKey(key) == <<"InvalidateKey", key>>

\* lines 279-285 and 318-330: Stop takes h.mu and, if there is a backend,
\* cleanupBackendLifecycle calls its InvalidateKey hook.  A hook called on a
\* nil backend is a nil-pointer dereference.
StopTeardown(t) ==
    /\ hostPc[t] = "idle"
    /\ hostMu = ""
    /\ hostMu' = t
    /\ hostLoc' = [hostLoc EXCEPT ![t] = [NoHostLoc EXCEPT !.op = "Stop"]]
    /\ IF HooksDue(hostBackend) /\ hostBackend = Nil
       THEN /\ hostPc' = [hostPc EXCEPT ![t] = "panicked"]
            /\ UNCHANGED <<tornDown, calls>>
       ELSE IF HooksDue(hostBackend)
       THEN /\ hostPc' = [hostPc EXCEPT ![t] = "sp_cleanup"]
            /\ tornDown' = [tornDown EXCEPT ![hostBackend] = TRUE]
            /\ calls' = [calls EXCEPT ![hostBackend] =
                           Append(@, InvalidateKey(ShutdownKey))]
       ELSE /\ hostPc' = [hostPc EXCEPT ![t] = "sp_client"]
            /\ UNCHANGED <<tornDown, calls>>
    /\ UNCHANGED <<hostBackend, client, pluginCmd, started, procs, clients,
                   setup, oasDoc, storage>>
    /\ UNCHANGED handlerVars
    /\ UNCHANGED <<mainVars, lockVars>>

\* line 286: "h.backend.Cleanup(context.Background())"
StopCleanup(t) ==
    /\ hostPc[t] = "sp_cleanup"
    /\ calls' = [calls EXCEPT ![hostBackend] = Append(@, "Cleanup")]
    /\ hostPc' = [hostPc EXCEPT ![t] = "sp_client"]
    /\ UNCHANGED <<hostMu, hostBackend, client, pluginCmd, hostLoc, started,
                   procs, clients, tornDown, setup, oasDoc, storage>>
    /\ UNCHANGED handlerVars
    /\ UNCHANGED <<mainVars, lockVars>>

\* lines 288-290: "if h.client != nil { h.client.Kill() }"
StopKillClient(t) ==
    /\ hostPc[t] = "sp_client"
    /\ clients' = Kill(clients, client)
    /\ hostPc' = [hostPc EXCEPT ![t] = "sp_process"]
    /\ UNCHANGED <<hostMu, hostBackend, client, pluginCmd, hostLoc, started,
                   procs, tornDown, storage>>
    /\ UNCHANGED lifeVars
    /\ UNCHANGED handlerVars
    /\ UNCHANGED <<mainVars, lockVars>>

\* lines 291-293: "if h.pluginCmd != nil && h.pluginCmd.Process != nil":
\* the process Start spawned is killed
StopKillProcess(t) ==
    /\ hostPc[t] = "sp_process"
    /\ procs' = Kill(procs, pluginCmd)
    /\ hostPc' = [hostPc EXCEPT ![t] =
                    IF pluginCmd = Nil THEN "sp_clear" ELSE "sp_wait"]
    /\ hostLoc' = [hostLoc EXCEPT ![t].cmd = pluginCmd]
    /\ UNCHANGED <<hostMu, hostBackend, client, pluginCmd, started,
                   clients, tornDown, storage>>
    /\ UNCHANGED lifeVars
    /\ UNCHANGED handlerVars
    /\ UNCHANGED <<mainVars, lockVars>>

\* line 294: "h.pluginCmd.Wait()" returns once the process has exited and
\* reaps it
StopWait(t) ==
    /\ hostPc[t] = "sp_wait"
    /\ procs[pluginCmd] = "killed"
    /\ procs' = [procs EXCEPT ![pluginCmd] = "reaped"]
    /\ hostPc' = [hostPc EXCEPT ![t] = "sp_clear"]
    /\ UNCHANGED <<hostMu, hostBackend, client, pluginCmd, hostLoc, started,
                   clients, tornDown, storage>>
    /\ UNCHANGED lifeVars
    /\ UNCHANGED handlerVars
    /\ UNCHANGED <<mainVars, lockVars>>

\* a Stop that clears the bridge's fields and leaves the Handler's backend
\* set (fault injected for C35)
StopClearBridgeOnly(t) ==
    /\ hostPc[t] = "sp_clear"
    /\ hostBackend' = Nil
    /\ client' = Nil
    /\ pluginCmd' = Nil
    /\ hostMu' = ""
    /\ hostPc' = [hostPc EXCEPT ![t] = "returned"]
    /\ UNCHANGED <<hostLoc, started, procs, clients, tornDown, storage>>
    /\ UNCHANGED lifeVars
    /\ UNCHANGED handlerVars
    /\ UNCHANGED <<mainVars, lockVars>>

\* lines 297-301: the fields are cleared, the Handler's backend is set to
\* nil and the deferred h.mu.Unlock runs
StopClear(t) ==
    /\ hostPc[t] = "sp_clear"
    /\ hostBackend' = Nil
    /\ client' = Nil
    /\ pluginCmd' = Nil
    /\ SetBackend(Nil)
    /\ hostMu' = ""
    /\ hostPc' = [hostPc EXCEPT ![t] = "returned"]
    /\ UNCHANGED <<hostLoc, started, procs, clients, tornDown, storage>>
    /\ UNCHANGED lifeVars
    /\ UNCHANGED <<mainVars, lockVars>>

\* the caller goes on after Start or Stop has returned
HostReturn(t) ==
    /\ hostPc[t] = "returned"
    /\ hostPc' = [hostPc EXCEPT ![t] = "idle"]
    /\ hostLoc' = [hostLoc EXCEPT ![t] = NoHostLoc]
    /\ UNCHANGED <<hostMu, hostBackend, client, pluginCmd, started, procs,
                   clients, tornDown, storage>>
    /\ UNCHANGED lifeVars
    /\ UNCHANGED handlerVars
    /\ UNCHANGED <<mainVars, lockVars>>

(* ------------------------- storage and health ------------------------- *)
\* the keys a plugin can store
Keys == 1..MaxKeys

\* InMemoryStorage.Put, called by the backend while it handles a request
StoragePut(k) ==
    /\ \E w \in Workers : pc[w] = "hr_call"
    /\ storage' = storage \cup {k}
    /\ UNCHANGED hostVars
    /\ UNCHANGED handlerVars
    /\ UNCHANGED <<mainVars, lockVars>>

\* InMemoryStorage.Delete, called by the backend while it handles a request
StorageDelete(k) ==
    /\ \E w \in Workers : pc[w] = "hr_call"
    /\ storage' = storage \ {k}
    /\ UNCHANGED hostVars
    /\ UNCHANGED handlerVars
    /\ UNCHANGED <<mainVars, lockVars>>

\* a boolean as encoding/json writes it
JBool(b) == IF b THEN "true" ELSE "false"

\* InMemoryStorage.List(ctx, ""): every key has the empty prefix
StorageList(data) == data

\* a health report that always says running (fault injected for C19)
PluginRunningAlways(b) == TRUE

\* "running := h.backend != nil"
PluginRunning(b) == b # Nil

\* lines 243-246 of HandleHealth: the backend reference is read under
\* h.mu.RLock
HandleHealthRead(w) ==
    /\ pc[w] = "idle"
    /\ loc' = [loc EXCEPT ![w] = [NoLoc EXCEPT !.kind = "health",
                                              !.running = PluginRunning(backend)]]
    /\ pc' = [pc EXCEPT ![w] = "hh_list"]
    /\ UNCHANGED <<backend, leases, heap, leaseMu, now, resp,
                   generated, revokeCalls, revokeAcks>>
    /\ UNCHANGED <<hostVars, storage, mainVars, lockVars>>

\* lines 248-262 of HandleHealth: the keys are listed and counted, and the
\* report is written without an explicit status, which is 200
HandleHealthList(w) ==
    /\ pc[w] = "hh_list"
    /\ Respond(w, [NoResp EXCEPT
                     !.status = StatusOK,
                     !.plugin_running = JBool(loc[w].running),
                     !.storage_entries = Cardinality(StorageList(storage))])
    /\ UNCHANGED <<backend, leases, heap, leaseMu, now, loc,
                   generated, revokeCalls, revokeAcks>>
    /\ UNCHANGED <<hostVars, storage, mainVars, lockVars>>

(* ------------------------- the HTTP server (main) --------------------- *)
HealthURL == <<"", "v1", "sys", "health">>
StorageURL == <<"", "v1", "sys", "storage">>
OpenAPIURL == <<"", "v1", "sys", "plugins", "catalog", "openapi">>
RootURL == <<"", "">>
LeaseRenewURL == <<"", "v1", "sys", "leases", "renew">>
LeaseRevokeURL == <<"", "v1", "sys", "leases", "revoke">>

\* the handler that http.DefaultServeMux selects for a URL path: a pattern
\* without a final '/' matches that path only, a pattern with one matches
\* the paths below it, and the longest matching pattern wins; a path that is
\* such a pattern without its final '/' is redirected to it.  The root
\* handler passes every path but "/" to HandleRequest.
Route(url) ==
    IF url = HealthURL THEN "HandleHealth"
    ELSE IF url = StorageURL THEN "HandleStorage"
    ELSE IF url = OpenAPIURL THEN "HandleOpenAPI"
    ELSE IF HasPrefixDir(url, <<"", "v1">> \o MountPath) THEN "HandleRequest"
    ELSE IF url = <<"", "v1">> \o MountPath THEN "Redirect"
    ELSE IF HasPrefixDir(url, <<"", "ui">>) THEN "FileServer"
    ELSE IF url = <<"", "ui">> THEN "Redirect"
    ELSE IF url = RootURL THEN "GetUsageInfo"
    ELSE "HandleRequest"

(* ------------------------------ inputs -------------------------------- *)
\* the plugin paths requested
PlainURL == <<"", "v1", "plugin", "x">>
RenewURL == <<"", "v1", "plugin", "x", "renew">>
RenewRenewURL == <<"", "v1", "plugin", "x", "renew", "renew">>

\* a lease ID of the right form that was never issued
BogusID == generateLeaseID(<<"x">>, 0)

\* answers of the backend to a plugin request
DataResult(secret) == BackendResult("", FALSE, TRUE, secret, FALSE, FALSE)
ErrorResult(err) == BackendResult(err, TRUE, FALSE, NoSecret, FALSE, FALSE)
NoDataResult == BackendResult("", FALSE, FALSE, NoSecret, TRUE, TRUE)

\* The inputs of the concurrent specification: few requests, every
\* interleaving of two workers.
Concurrent ==
    [workers |-> Workers,
     methods |-> {"GET"},
     urls |-> {PlainURL},
     queries |-> {""},
     bodies |-> {EmptyBody},
     results |-> {DataResult(NoSecret), DataResult(SecretTTL(Hour))},
     leaseMethods |-> {"POST"},
     increments |-> {JAbsent, JNum(3600)},
     leaseIDs |-> {},
     leaseBodies |-> {},
     revokeURLs |-> {}]

\* The inputs of the sequential specification: one worker, every kind of
\* request.
Sequential ==
    [workers |-> {"w1"},
     methods |-> {"GET", "POST", "PUT", "DELETE", "LIST", "PATCH"},
     urls |-> {PlainURL, RenewURL, RenewRenewURL},
     queries |-> {"", "rotate", "revoke"},
     bodies |-> {EmptyBody, ObjectBody(JAbsent, JAbsent), InvalidBody,
                 ArrayBody, NullBody},
     results |-> {ErrorResult("denied"), ErrorResult("other"), NilResult,
                  NoDataResult, DataResult(NoSecret), DataResult(SecretTTL(0)),
                  DataResult(SecretTTL(Hour))},
     leaseMethods |-> {"POST", "PUT", "GET"},
     increments |-> {JAbsent, JNum(0), JNum(3600), JNum(-60), JStr(<<"1h">>),
                     JStr(<<"90">>), JStr(<<"abc">>)},
     leaseIDs |-> {BogusID},
     leaseBodies |-> {EmptyBody, InvalidBody, ObjectBody(JAbsent, JAbsent),
                      ObjectBody(JNum(7), JAbsent),
                      ObjectBody(JStr(<<"">>), JAbsent)},
     revokeURLs |-> {RevokePrefix \o <<"">>}]

\* the bodies sent to the lease endpoints
LeaseBodies(in) ==
    in.leaseBodies
    \cup {ObjectBody(JStr(id), inc) :
            id \in in.leaseIDs \cup {generateLeaseID(<<"x">>, n) : n \in 1..generated},
            inc \in in.increments}

\* the URLs sent to the revocation-by-path endpoint
RevokeURLs(in) ==
    in.revokeURLs
    \cup {RevokePrefix \o id :
            id \in in.leaseIDs \cup {generateLeaseID(<<"x">>, n) : n \in 1..generated}}

\* one step of the handlers, the clock or the plugin bridge
Step(in) ==
    \/ \E b \in Backends \cup {Nil} :
          SetBackend(b) /\ UNCHANGED <<hostVars, storage, mainVars, lockVars>>
    \/ Tick(DefaultLeaseDuration)
    \/ \E w \in in.workers : Return(w)
    \/ \E w \in in.workers, m \in in.methods, u \in in.urls, q \in in.queries,
          b \in in.bodies :
          /\ ReadsBody(m) \/ b = EmptyBody
          /\ HandleRequestGate(w, m, u, q, b)
    \/ \E w \in in.workers, r \in in.results : HandleRequestCall(w, r)
    \/ \E w \in in.workers : HandleRequestStore(w)
    \/ \E w \in in.workers, m \in in.leaseMethods, b \in LeaseBodies(in) :
          HandleLeaseRenewParse(w, m, b)
    \/ \E w \in in.workers : HandleLeaseRenewLookup(w)
    \/ \E w \in in.workers : HandleLeaseRenewCheck(w)
    \/ \E w \in in.workers, ok \in BOOLEAN : HandleLeaseRenewCall(w, ok)
    \/ \E w \in in.workers : HandleLeaseRenewUpdate(w)
    \/ \E w \in in.workers, m \in in.leaseMethods, b \in LeaseBodies(in) :
          HandleLeaseRevokeParse(w, m, b)
    \/ \E w \in in.workers : HandleLeaseRevokeRemove(w)
    \/ \E w \in in.workers, ok \in BOOLEAN : HandleLeaseRevokeNotify(w, ok)
    \/ \E w \in in.workers, m \in in.leaseMethods, u \in RevokeURLs(in) :
          HandleLeaseRevokeByPathParse(w, m, u)
    \/ \E w \in in.workers : HandleLeaseRevokeByPathRemove(w)
    \/ \E w \in in.workers, ok \in BOOLEAN : HandleLeaseRevokeByPathNotify(w, ok)

\* two workers: a panicked handler's connection is closed
Next ==
    \/ Step(Concurrent)
    \/ \E w \in Workers : Recover(w)

Spec == Init /\ [][Next]_vars

\* The inputs of the specification with scheduling: those of the two
\* workers, and a backend that can always answer (an answer without data
\* mints no lease, so the bound on the leases never holds a call back).
Scheduled == [Concurrent EXCEPT !.results = @ \cup {NilResult}]

NextFair ==
    \/ Step(Scheduled)
    \/ \E w \in Workers : Recover(w)

\* a step that worker w takes by itself once its request has arrived: the
\* goroutine of the request runs, and each backend call returns
Serves(w) ==
    \/ \E r \in Scheduled.results : HandleRequestCall(w, r)
    \/ HandleRequestStore(w)
    \/ HandleLeaseRenewLookup(w)
    \/ HandleLeaseRenewCheck(w)
    \/ \E ok \in BOOLEAN : HandleLeaseRenewCall(w, ok)
    \/ HandleLeaseRenewUpdate(w)
    \/ HandleLeaseRevokeRemove(w)
    \/ \E ok \in BOOLEAN : HandleLeaseRevokeNotify(w, ok)
    \/ HandleLeaseRevokeByPathRemove(w)
    \/ \E ok \in BOOLEAN : HandleLeaseRevokeByPathNotify(w, ok)

\* the two workers under the Go scheduler: a goroutine that can run does
SpecFair ==
    Init /\ [][NextFair]_vars /\ \A w \in Workers : WF_vars(Serves(w))

\* one worker
NextSeq == Step(Sequential)

SpecSeq == Init /\ [][NextSeq]_vars

\* a descriptor of these fields, with the trailing delimiter go-plugin
\* writes
RECURSIVE Descriptor(_)
Descriptor(fields) ==
    IF fields = <<>> THEN <<>>
    ELSE <<Head(fields), "|">> \o Descriptor(Tail(fields))

\* "1|5|unix|/sock|grpc|", and a line that has the marker and three fields
GoodDescriptor == Descriptor(<<"1", "5", "unix", "/sock", "grpc">>)
ShortDescriptor == Descriptor(<<"1", "unix", "grpc">>)

\* a line of the plugin's log
LogLine == <<"starting", " ", "plugin">>

\* The inputs of the server specification: one worker that sends requests
\* through the server's routes while two callers start and stop the plugin.
Served ==
    [workers |-> {"w1"},
     methods |-> {"GET", "PUT"},
     urls |-> {PlainURL, HealthURL, LeaseRenewURL, LeaseRevokeURL,
               RevokePrefix \o BogusID},
     results |-> {NilResult},
     initOks |-> {TRUE},
     pathsOutcomes |-> {"noSchema"},
     attachStrings |-> {<<>>, GoodDescriptor},
     spawns |-> {TRUE},
     stdouts |-> {<<>>, <<GoodDescriptor>>}]

\* the attach strings ("" when the flag is not given) and the outputs of a
\* launched plugin in the specification of the bridge alone
Launches ==
    [attachStrings |-> {<<>>, GoodDescriptor, ShortDescriptor},
     spawns |-> BOOLEAN,
     stdouts |-> {<<>>, <<LogLine, GoodDescriptor>>, <<ShortDescriptor>>}]

\* one step of a caller of Start or Stop, of the server, or of the backend
NextHost ==
    \/ \E t \in Callers, a \in Served.attachStrings,
          spawned \in Served.spawns, out \in Served.stdouts :
          StartBegin(t, a, spawned, out)
    \/ \E t \in Callers : StartStoreCmd(t)
    \/ \E t \in Callers : StartRelock(t)
    \/ \E t \in Callers, o \in ConnectOutcomes : StartConnect(t, o)
    \/ \E t \in Callers : StartPublish(t)
    \/ \E t \in Callers, ok \in Served.initOks : StartInitialize(t, ok)
    \/ \E t \in Callers, o \in Served.pathsOutcomes : StartListPaths(t, o)
    \/ \E t \in Callers : StopTeardown(t)
    \/ \E t \in Callers : StopCleanup(t)
    \/ \E t \in Callers : StopKillClient(t)
    \/ \E t \in Callers : StopKillProcess(t)
    \/ \E t \in Callers : StopWait(t)
    \/ \E t \in Callers : StopClear(t)
    \/ \E t \in Callers : HostReturn(t)
    \/ \E w \in Served.workers, m \in Served.methods, u \in Served.urls :
          /\ Route(u) = "HandleRequest"
          /\ HandleRequestGate(w, m, u, "", EmptyBody)
    \/ \E w \in Served.workers, r \in Served.results : HandleRequestCall(w, r)
    \/ \E w \in Served.workers, u \in Served.urls :
          /\ Route(u) = "HandleHealth"
          /\ HandleHealthRead(w)
    \/ \E w \in Served.workers : HandleHealthList(w)
    \/ \E w \in Served.workers : Return(w)
    \/ \E k \in Keys : StoragePut(k)
    \/ \E k \in Keys : StorageDelete(k)

SpecHost == Init /\ [][NextHost]_vars

\* one step of a caller of Start or Stop, with every outcome of the
\* plugin's launch, connection and lifecycle calls; no request is served
NextBridge ==
    \/ \E t \in Callers, a \in Launches.attachStrings,
          spawned \in Launches.spawns, out \in Launches.stdouts :
          StartBegin(t, a, spawned, out)
    \/ \E t \in Callers : StartStoreCmd(t)
    \/ \E t \in Callers : StartRelock(t)
    \/ \E t \in Callers, o \in ConnectOutcomes : StartConnect(t, o)
    \/ \E t \in Callers : StartPublish(t)
    \/ \E t \in Callers, ok \in BOOLEAN : StartInitialize(t, ok)
    \/ \E t \in Callers, o \in PathsOutcomes : StartListPaths(t, o)
    \/ \E t \in Callers : StopTeardown(t)
    \/ \E t \in Callers : StopCleanup(t)
    \/ \E t \in Callers : StopKillClient(t)
    \/ \E t \in Callers : StopKillProcess(t)
    \/ \E t \in Callers : StopWait(t)
    \/ \E t \in Callers : StopClear(t)
    \/ \E t \in Callers : HostReturn(t)

SpecBridge == Init /\ [][NextBridge]_vars

\* the fields a descriptor is made of here, and the most it has
FieldValues == {"unix", "tcp", "udp"}
MaxFields == 6

\* descriptors of one to MaxFields fields, with one trailing delimiter,
\* with none and with two
DescriptorStrings ==
    LET written == {Descriptor(f) :
                      f \in UNION {[1..n -> FieldValues] : n \in 1..MaxFields}}
    IN  written \cup {TrimSuffix(d, "|") : d \in written}
                \cup {d \o <<"|">> : d \in written}

\* the lines a plugin writes here: log lines, a blank line, descriptors, a
\* descriptor between blanks, a line with the marker and too few fields, and
\* a line that names unix without the delimiter before it
OutputLines ==
    {LogLine, <<>>, GoodDescriptor,
     <<" ">> \o Descriptor(<<"1", "5", "tcp", "addr", "netrpc">>) \o <<" ">>,
     ShortDescriptor, <<"unix", "|", "x">>}

\* the most lines a plugin writes before its output ends
MaxLines == 3

\* the outputs of a launched plugin
Stdouts == UNION {[1..n -> OutputLines] : n \in 0..MaxLines}

\* one step of a single caller of Start and Stop, for every attach string
\* and every output of the launched plugin
NextLaunch ==
    \/ \E a \in DescriptorStrings : StartBegin("h1", a, TRUE, <<>>)
    \/ \E spawned \in BOOLEAN, out \in Stdouts :
          StartBegin("h1", <<>>, spawned, out)
    \/ StartStoreCmd("h1")
    \/ StartRelock("h1")
    \/ \E o \in {"connection", "ok"} : StartConnect("h1", o)
    \/ StartPublish("h1")
    \/ \E ok \in Served.initOks : StartInitialize("h1", ok)
    \/ \E o \in Served.pathsOutcomes : StartListPaths("h1", o)
    \/ StopTeardown("h1")
    \/ StopCleanup("h1")
    \/ StopKillClient("h1")
    \/ StopKillProcess("h1")
    \/ StopWait("h1")
    \/ StopClear("h1")
    \/ HostReturn("h1")

SpecLaunch == Init /\ [][NextLaunch]_vars

\* the most segments of a requested URL, and the segments it is made of
MaxSegments == 4
Segments == {"v1", "plugin", "x"}

\* the URLs requested of the server: "/" followed by one to MaxSegments
\* segments
RoutedURLs ==
    {<<"">> \o segs :
       segs \in UNION {[1..n -> Segments] : n \in 1..MaxSegments}}

\* one step of the server with one worker, for every URL, while a backend
\* is set or not
NextRoute ==
    \/ \E b \in Backends \cup {Nil} :
          SetBackend(b) /\ UNCHANGED <<hostVars, storage, mainVars, lockVars>>
    \/ \E m \in Served.methods, u \in RoutedURLs :
          /\ Route(u) = "HandleRequest"
          /\ HandleRequestGate("w1", m, u, "", EmptyBody)
    \/ \E r \in Served.results : HandleRequestCall("w1", r)
    \/ Return("w1")

SpecRoute == Init /\ [][NextRoute]_vars

\* main up to the creation of the PluginHost, for every -config value
NextMain ==
    \/ \E s \in ConfigStrings : FlagParse(s)
    \/ ParseConfig

SpecMain == Init /\ [][NextMain]_vars

\* The inputs of the specification of the leases across restarts: a worker
\* that reads, which mints a lease, and revokes by body, while two callers
\* start and stop a launched plugin that comes up.
Leased ==
    [workers |-> {"w1"},
     results |-> {DataResult(NoSecret)},
     attachStrings |-> {<<>>},
     stdouts |-> {<<GoodDescriptor>>}]

\* one step of a caller of Start or Stop, or of the worker that reads and
\* revokes
NextLeased ==
    \/ \E t \in Callers, a \in Leased.attachStrings, out \in Leased.stdouts :
          StartBegin(t, a, TRUE, out)
    \/ \E t \in Callers : StartStoreCmd(t)
    \/ \E t \in Callers : StartRelock(t)
    \/ \E t \in Callers : StartConnect(t, "ok")
    \/ \E t \in Callers : StartPublish(t)
    \/ \E t \in Callers : StartInitialize(t, TRUE)
    \/ \E t \in Callers : StartListPaths(t, "noSchema")
    \/ \E t \in Callers : StopTeardown(t)
    \/ \E t \in Callers : StopCleanup(t)
    \/ \E t \in Callers : StopKillClient(t)
    \/ \E t \in Callers : StopKillProcess(t)
    \/ \E t \in Callers : StopWait(t)
    \/ \E t \in Callers : StopClear(t)
    \/ \E t \in Callers : HostReturn(t)
    \/ \E w \in Leased.workers :
          HandleRequestGate(w, "GET", PlainURL, "", EmptyBody)
    \/ \E w \in Leased.workers, r \in Leased.results : HandleRequestCall(w, r)
    \/ \E w \in Leased.workers : HandleRequestStore(w)
    \/ \E w \in Leased.workers, n \in 1..MaxLeases :
          HandleLeaseRevokeParse(w, "POST",
              ObjectBody(JStr(generateLeaseID(<<"x">>, n)), JAbsent))
    \/ \E w \in Leased.workers : HandleLeaseRevokeRemove(w)
    \/ \E w \in Leased.workers, ok \in BOOLEAN : HandleLeaseRevokeNotify(w, ok)
    \/ \E w \in Leased.workers : Return(w)

SpecLeased == Init /\ [][NextLeased]_vars

(* ------------------------- the locks ---------------------------------- *)
\* The lock statements of each operation, in the order the operation runs
\* them: <<"lock", l>> is l.Lock(), <<"rlock", l>> l.RLock(), "unlock" and
\* "runlock" their releases, and <<"panic", l>> the end of a goroutine that
\* panics with l locked.

\* lines 72-76: "h.mu.Lock(); defer h.mu.Unlock()"
SetBackendLocks == << <<"lock", "mu">>, <<"unlock", "mu">> >>

\* lines 80-87 and 213-215: the backend reference is read under h.mu.RLock;
\* a read that mints a lease stores it under h.leaseMu
HandleRequestLocks(mints) ==
    << <<"rlock", "mu">>, <<"runlock", "mu">> >>
    \o (IF mints THEN << <<"lock", "leaseMu">>, <<"unlock", "leaseMu">> >>
        ELSE <<>>)

\* lines 244-246
HandleHealthLocks == << <<"rlock", "mu">>, <<"runlock", "mu">> >>

\* the ways through HandleLeaseRenew past the parsing of the request
RenewPaths == {"rejected", "failed", "renewed", "panics"}

\* lines 430-432, 455-457 and 482-485: the lookup; then, unless the lease
\* is unknown, not renewable or expired, the backend reference; then,
\* unless the backend fails, the update, whose assignment panics on a
\* record that is gone, before the Unlock
HandleLeaseRenewLocks(path) ==
    << <<"lock", "leaseMu">>, <<"unlock", "leaseMu">> >>
    \o (IF path = "rejected" THEN <<>>
        ELSE << <<"rlock", "mu">>, <<"runlock", "mu">> >>)
    \o (IF path \in {"rejected", "failed"} THEN <<>>
        ELSE IF path = "renewed"
        THEN << <<"lock", "leaseMu">>, <<"unlock", "leaseMu">> >>
        ELSE << <<"lock", "leaseMu">>, <<"panic", "leaseMu">> >>)

\* a revocation that reads the backend reference inside the critical
\* section of the lease table (fault injected for C31)
HandleLeaseRevokeLocksNested(found) ==
    IF found
    THEN << <<"lock", "leaseMu">>, <<"rlock", "mu">>, <<"runlock", "mu">>,
            <<"unlock", "leaseMu">> >>
    ELSE << <<"lock", "leaseMu">>, <<"unlock", "leaseMu">> >>

\* lines 531-536 and 544-546, and the same at 591-596 and 604-606: the
\* removal, and for a lease that was found the backend reference
HandleLeaseRevokeLocks(found) ==
    << <<"lock", "leaseMu">>, <<"unlock", "leaseMu">> >>
    \o (IF found THEN << <<"rlock", "mu">>, <<"runlock", "mu">> >> ELSE <<>>)

\* plugin_host.go:467-471, called by main's route before HandleOpenAPI
GetOpenAPIDocLocks == << <<"rlock", "hostMu">>, <<"runlock", "hostMu">> >>

\* plugin_host.go:86-87, 202-204 and 265: Start locks h.mu with a deferred
\* Unlock, releases and retakes it around "h.pluginCmd = cmd" when it
\* launched the plugin, and calls SetBackend when the backend is set up
StartLocks(manual, published) ==
    << <<"lock", "hostMu">> >>
    \o (IF manual THEN << <<"unlock", "hostMu">>, <<"lock", "hostMu">> >>
        ELSE <<>>)
    \o (IF published THEN SetBackendLocks ELSE <<>>)
    \o << <<"unlock", "hostMu">> >>

\* plugin_host.go:280-281 and 300
StopLocks ==
    << <<"lock", "hostMu">> >> \o SetBackendLocks \o << <<"unlock", "hostMu">> >>

\* the operations that the goroutine of a request runs
WorkerPrograms ==
    {HandleRequestLocks(m) : m \in BOOLEAN}
    \cup {HandleHealthLocks}
    \cup {HandleLeaseRenewLocks(p) : p \in RenewPaths}
    \cup {HandleLeaseRevokeLocks(f) : f \in BOOLEAN}
    \cup {GetOpenAPIDocLocks}

\* the operations of a caller of Start or Stop
CallerPrograms ==
    {StartLocks(m, p) : m \in BOOLEAN, p \in BOOLEAN} \cup {StopLocks}

\* thread t holds lock l, for writing or for reading
Holds(t, l) == locks[l].w = t \/ t \in locks[l].r

\* sync.RWMutex: Lock waits for the writer and the readers, RLock for the
\* writer
CanAcquire(verb, l) ==
    IF verb = "lock"
    THEN locks[l].w = "" /\ locks[l].r = {}
    ELSE locks[l].w = ""

\* thread t enters an operation
LockCall(t, prog) ==
    /\ lockProg[t] = <<>>
    /\ lockProg' = [lockProg EXCEPT ![t] = prog]
    /\ UNCHANGED locks
    /\ UNCHANGED <<handlerVars, hostVars, storage, mainVars>>

\* thread t runs the Lock or RLock it is at
Acquire(t) ==
    /\ lockProg[t] # <<>>
    /\ LET verb == Head(lockProg[t])[1]
           l == Head(lockProg[t])[2]
       IN
       /\ verb \in {"lock", "rlock"}
       /\ CanAcquire(verb, l)
       /\ locks' = IF verb = "lock"
                   THEN [locks EXCEPT ![l].w = t]
                   ELSE [locks EXCEPT ![l].r = @ \cup {t}]
    /\ lockProg' = [lockProg EXCEPT ![t] = Tail(@)]
    /\ UNCHANGED <<handlerVars, hostVars, storage, mainVars>>

\* thread t runs the Unlock or RUnlock it is at
Release(t) ==
    /\ lockProg[t] # <<>>
    /\ LET verb == Head(lockProg[t])[1]
           l == Head(lockProg[t])[2]
       IN
       /\ verb \in {"unlock", "runlock"}
       /\ locks' = IF verb = "unlock"
                   THEN [locks EXCEPT ![l].w = ""]
                   ELSE [locks EXCEPT ![l].r = @ \ {t}]
    /\ lockProg' = [lockProg EXCEPT ![t] = Tail(@)]
    /\ UNCHANGED <<handlerVars, hostVars, storage, mainVars>>

\* the goroutine of t panics between Lock and Unlock: the lock stays held
\* by a goroutine that is gone, and the worker serves the next request
Panic(t) ==
    /\ lockProg[t] # <<>>
    /\ Head(lockProg[t])[1] = "panic"
    /\ locks' = [locks EXCEPT ![Head(lockProg[t])[2]].w = "gone"]
    /\ lockProg' = [lockProg EXCEPT ![t] = Tail(@)]
    /\ UNCHANGED <<handlerVars, hostVars, storage, mainVars>>

\* one lock statement of a request's goroutine or of a caller of Start or
\* Stop
NextLocks ==
    \/ \E t \in Workers, prog \in WorkerPrograms : LockCall(t, prog)
    \/ \E t \in Callers, prog \in CallerPrograms : LockCall(t, prog)
    \/ \E t \in Threads : Acquire(t)
    \/ \E t \in Threads : Release(t)
    \/ \E t \in Threads : Panic(t)

SpecLocks == Init /\ [][NextLocks]_vars

(* ---------------------------- properties ------------------------------ *)
\* worker w has written the response of a request of this kind
Answered(w, kind) == pc[w] = "done" /\ loc[w].kind = kind

\* the two revocation endpoints
RevokeKinds == {"revoke", "revokeByPath"}

\* the suffixes and query values that select a lifecycle operation
LifecycleNames == {"revoke", "renew", "rollback", "rotate"}

(* C1, as stated: a plugin-path request that finds no backend reference is
   answered 503 "plugin not started" and the backend is not called; a request
   that finds a backend reference is never answered 503 and is forwarded to
   the backend.  loc[w].backend is the reference the request read under h.mu,
   so "after Start", "until Stop" and "again after Stop" are the values that
   reading can have. *)
C1_ForwardedWheneverStarted ==
    \A w \in Workers :
        Answered(w, "request") =>
            IF loc[w].backend = Nil
            THEN /\ resp[w].status = 503
                 /\ resp[w].msg = "plugin not started"
                 /\ loc[w].called = "no"
            ELSE /\ resp[w].status # 503
                 /\ loc[w].called # "no"

(* C1, amended: as above, but a request that finds a backend reference is
   forwarded unless it is rejected first with 400 (body not decodable) or 405
   (verb not supported); a request that is being forwarded found a backend. *)
C1_ForwardedUnlessRejected ==
    \A w \in Workers :
        /\ Answered(w, "request") =>
              IF loc[w].backend = Nil
              THEN /\ resp[w].status = 503
                   /\ resp[w].msg = "plugin not started"
                   /\ loc[w].called = "no"
              ELSE /\ resp[w].status # 503
                   /\ loc[w].called = "no" => resp[w].status \in {400, 405}
        /\ pc[w] \in {"hr_call", "hr_store"} => loc[w].backend # Nil

\* a request answered 503 after a backend had been set (a lease was minted
\* through it) and then cleared
C1_Witness ==
    \E w \in Workers :
        /\ Answered(w, "request")
        /\ resp[w].status = 503
        /\ generated > 0

(* C2: a request with a backend, whose path has no lifecycle suffix and which
   has no operation query parameter, is forwarded with the operation of its
   verb (GET read, POST and PUT update, DELETE delete, LIST list); a request
   with any other verb is answered 405 and the backend is not called. *)
C2_VerbDeterminesOperation ==
    \A w \in Workers :
        (/\ loc[w].kind = "request"
         /\ loc[w].backend # Nil
         /\ loc[w].query = ""
         /\ loc[w].url[Len(loc[w].url)] \notin LifecycleNames)
        =>
        LET m == loc[w].method
            forwarded == pc[w] \in {"hr_call", "hr_store"} \/ loc[w].called # "no"
        IN
        IF m \in {"GET", "POST", "PUT", "DELETE", "LIST"}
        THEN /\ resp[w].status # 405
             /\ forwarded =>
                   loc[w].operation =
                      CASE m = "GET" -> "read"
                        [] m = "POST" -> "update"
                        [] m = "PUT" -> "update"
                        [] m = "DELETE" -> "delete"
                        [] m = "LIST" -> "list"
        ELSE /\ pc[w] = "done"
             /\ resp[w].status = 405
             /\ ~forwarded

\* a LIST request on a plain path that reached the backend
C2_Witness ==
    \E w \in Workers :
        /\ Answered(w, "request")
        /\ loc[w].method = "LIST"
        /\ loc[w].query = ""
        /\ loc[w].url = PlainURL
        /\ loc[w].called = "ok"

(* C3: with a backend set, the step that takes in a POST or PUT whose body is
   not empty and not JSON answers 400 "failed to parse JSON", does not call
   the backend and leaves the lease table and its records unchanged; the step
   that takes in a POST or PUT with an empty body hands the request on to the
   backend call, without data. *)
C3_BodyDecoding ==
    [][\A w \in Workers :
          (/\ pc[w] = "idle"
           /\ loc'[w].kind = "request"
           /\ backend # Nil
           /\ loc'[w].method \in {"POST", "PUT"})
          =>
          /\ loc'[w].body.kind = "invalid" =>
                /\ pc'[w] = "done"
                /\ resp'[w].status = 400
                /\ resp'[w].msg = "failed to parse JSON"
                /\ loc'[w].called = "no"
                /\ UNCHANGED <<leases, heap>>
          /\ loc'[w].body.kind = "empty" =>
                /\ pc'[w] = "hr_call"
                /\ ~loc'[w].data]_vars

\* a POST with a body that is not JSON was answered 400 while the lease table
\* held a lease
C3_Witness ==
    \E w \in Workers :
        /\ Answered(w, "request")
        /\ loc[w].method = "POST"
        /\ loc[w].body.kind = "invalid"
        /\ resp[w].status = 400
        /\ DOMAIN leases # {}

(* C4, as stated: the step in which a read that got data writes its response
   answers 200 with lease_id, lease_duration and renewable = true, and in the
   state it leaves the lease table holds, under that lease_id, a record with
   renewable = true, expire_time = issue_time + duration, and duration equal
   to the secret's time-to-live when that is positive and 24 hours
   (lease_duration 86400) otherwise; no lease stored by another read is
   lost. *)
C4_MintedLeaseRecord ==
    [][\A w \in Workers :
          (pc[w] = "hr_store" /\ pc'[w] = "done")
          =>
          /\ resp'[w].status = 200
          /\ resp'[w].renewable
          /\ resp'[w].lease_id = loc[w].leaseID
          /\ resp'[w].lease_id \in DOMAIN leases'
          /\ DOMAIN leases \subseteq DOMAIN leases'
          /\ LET record == heap'[leases'[resp'[w].lease_id]]
                 ttl == loc[w].secret.TTL
             IN
             /\ record.Renewable
             /\ record.ExpireTime = record.IssueTime + record.Duration
             /\ record.Duration =
                   IF loc[w].secret.present /\ ttl > 0 THEN ttl
                   ELSE 24 * 3600 * 1000
             /\ resp'[w].lease_duration * 1000 = record.Duration
             /\ ~(loc[w].secret.present /\ ttl > 0) =>
                   resp'[w].lease_duration = 86400]_vars

(* C5, as stated: the step in which a renewal that named no increment updates
   the lease answers 200 with lease_duration 86400 and adds 24 hours to the
   record's expire_time, so that every such renewal adds the same delta. *)
C5_RenewalAddsDefault ==
    [][\A w \in Workers :
          (/\ pc[w] = "lr_update"
           /\ pc'[w] = "done"
           /\ loc[w].body.increment.t = "absent")
          =>
          LET a == leases[loc[w].leaseID] IN
          /\ resp'[w].status = 200
          /\ resp'[w].lease_duration = 86400
          /\ heap'[a].ExpireTime = heap[a].ExpireTime + 24 * 3600 * 1000]_vars

(* C5, amended: a renewal that named no increment computes the new expiry as
   the clock reading of the renewal plus 24 hours, whatever the expiry was;
   its update answers 200 with lease_duration 86400 and sets the record's
   expire_time to that value and its duration to 24 hours. *)
C5_RenewalRestartsFromNow ==
    [][\A w \in Workers :
          loc[w].body.increment.t = "absent"
          =>
          /\ (pc[w] = "lr_call" /\ pc'[w] = "lr_update") =>
                loc'[w].expireTime = now + 24 * 3600 * 1000
          /\ (pc[w] = "lr_update" /\ pc'[w] = "done") =>
                LET a == leases[loc[w].leaseID] IN
                /\ resp'[w].status = 200
                /\ resp'[w].lease_duration = 86400
                /\ heap'[a].ExpireTime = loc[w].expireTime
                /\ heap'[a].Duration = 24 * 3600 * 1000]_vars

\* a renewal without increment, made a day after the lease was issued, was
\* answered 200 and the record expires a day after the renewal
C5_Witness ==
    \E w \in Workers :
        /\ Answered(w, "renew")
        /\ resp[w].status = 200
        /\ loc[w].body.increment.t = "absent"
        /\ now = DefaultLeaseDuration
        /\ loc[w].leaseID \in DOMAIN leases
        /\ heap[leases[loc[w].leaseID]].ExpireTime = 2 * DefaultLeaseDuration

(* C6: of all the revocations of one lease, by body or by path and in any
   interleaving, at most one answers 204, and it is the one that removed the
   record; once it has answered the record is gone; a revocation that names
   an ID that is not in the table answers 404; the backend receives at most
   one revoke-kind request for the lease. *)
C6_OneRevocationWins ==
    /\ \A a \in 1..MaxLeases :
          /\ revokeAcks[a] <= 1
          /\ revokeCalls[a] <= 1
          /\ revokeAcks[a] = 1 => \A k \in DOMAIN leases : leases[k] # a
    /\ \A w \in Workers :
          (pc[w] = "done" /\ loc[w].kind \in RevokeKinds
              /\ loc[w].leaseID # <<"">>)
          =>
          IF loc[w].leaseInfo # Nil
          THEN /\ resp[w].status = 204
               /\ revokeAcks[loc[w].leaseInfo] = 1
               /\ \A v \in Workers \ {w} :
                     loc[v].kind \in RevokeKinds =>
                        loc[v].leaseInfo # loc[w].leaseInfo
          ELSE resp[w].status = 404

\* two revocations of one lease, one by body and one by path, have both been
\* answered: one 204, the other 404
C6_Witness ==
    \E w, v \in Workers :
        /\ Answered(w, "revoke")
        /\ Answered(v, "revokeByPath")
        /\ loc[w].leaseID = loc[v].leaseID
        /\ {resp[w].status, resp[v].status} = {204, 404}
        /\ revokeCalls[1] = 1

(* C7, as stated: a renewal answered 200 was preceded by a renew-kind request
   to the backend that returned success, and a renewal whose backend call
   failed was answered 500. *)
C7_RenewedOnlyAfterBackend ==
    \A w \in Workers :
        Answered(w, "renew") =>
            /\ resp[w].status = 200 => loc[w].called = "ok"
            /\ loc[w].called = "err" => resp[w].status = 500

(* C8: the steps of a renewal reject it in this order, each without a backend
   call and without a change to the lease table or its records: a body whose
   lease_id is missing, no string or empty is answered 400 "lease_id is
   required" and nothing else is; then an ID that is not in the table is
   answered 404 and nothing else is; then a lease that is not renewable is
   answered 400; then a lease whose expire_time the clock has passed is
   answered 400 "lease has expired", and a lease whose expire_time the clock
   has not passed goes on to the backend call. *)
C8_RenewalRejections ==
    [][\A w \in Workers :
          /\ (/\ pc[w] = "idle"
              /\ loc'[w].kind = "renew"
              /\ loc'[w].method \in {"PUT", "POST"}
              /\ loc'[w].body.kind \in {"empty", "null", "object"})
             =>
             LET body == loc'[w].body
                 missing == \/ body.kind # "object"
                            \/ body.lease_id.t # "string"
                            \/ body.lease_id.s = <<"">>
             IN
             /\ UNCHANGED <<leases, heap>>
             /\ loc'[w].called = "no"
             /\ IF missing
                THEN /\ pc'[w] = "done"
                     /\ resp'[w].status = 400
                     /\ resp'[w].msg = "lease_id is required"
                ELSE /\ pc'[w] = "lr_lookup"
                     /\ loc'[w].leaseID = body.lease_id.s
          /\ (pc[w] = "lr_lookup" /\ pc'[w] # "lr_lookup")
             =>
             /\ UNCHANGED <<leases, heap>>
             /\ loc'[w].called = "no"
             /\ IF loc[w].leaseID \notin DOMAIN leases
                THEN /\ pc'[w] = "done"
                     /\ resp'[w].status = 404
                ELSE pc'[w] = "lr_check"
          /\ (pc[w] = "lr_check" /\ pc'[w] # "lr_check")
             =>
             LET record == heap[leases[loc[w].leaseID]] IN
             /\ UNCHANGED <<leases, heap>>
             /\ loc'[w].called = "no"
             /\ IF ~record.Renewable
                THEN /\ pc'[w] = "done"
                     /\ resp'[w].status = 400
                     /\ resp'[w].msg = "lease is not renewable"
                ELSE IF now > record.ExpireTime
                THEN /\ pc'[w] = "done"
                     /\ resp'[w].status = 400
                     /\ resp'[w].msg = "lease has expired"
                ELSE pc'[w] = "lr_call"]_vars

\* a renewal of a lease in the table was answered 400 because the clock had
\* passed the lease's expire_time, and the record is as the read stored it
C8_Witness ==
    \E w \in Workers :
        /\ Answered(w, "renew")
        /\ resp[w].status = 400
        /\ resp[w].msg = "lease has expired"
        /\ loc[w].leaseID \in DOMAIN leases
        /\ now > heap[leases[loc[w].leaseID]].ExpireTime
        /\ loc[w].called = "no"

(* C9: while a revocation is about to notify the backend, the record is
   already out of the table and no revoke-kind request for it has been sent;
   the revocation that removed the record answers 204, and the record is out
   of the table, whether the notification succeeded, failed or was not sent
   for want of a backend. *)
C9_CommitThenNotify ==
    \A w \in Workers :
        /\ pc[w] \in {"rv_notify", "rp_notify"} =>
              /\ loc[w].leaseID \notin DOMAIN leases
              /\ loc[w].called = "no"
              /\ revokeCalls[loc[w].leaseInfo] = 0
        /\ (pc[w] = "done" /\ loc[w].kind \in RevokeKinds
               /\ loc[w].leaseInfo # Nil)
           =>
           /\ loc[w].called \in {"no", "ok", "err"}
           /\ resp[w].status = 204
           /\ loc[w].leaseID \notin DOMAIN leases

\* a revocation whose notification the backend failed was answered 204
C9_Witness ==
    \E w \in Workers :
        /\ pc[w] = "done"
        /\ loc[w].kind \in RevokeKinds
        /\ loc[w].called = "err"
        /\ resp[w].status = 204
        /\ loc[w].leaseID \notin DOMAIN leases

(* C10, as stated: the table update of a renewal never runs against a record
   that a revocation has removed since the renewal looked the lease up.  Such
   an update assigns through the nil pointer the table yields for the missing
   key and dies with h.leaseMu held; the worker is then at "panicked". *)
C10_RenewalSerializedWithRevocation ==
    \A w \in Workers : pc[w] # "panicked"

(* ------------------- properties of the plugin bridge ------------------ *)
\* caller t has taken h.mu in Start or Stop and has not returned yet
InFlight(t) ==
    hostPc[t] \in {"st_store", "st_relock", "st_connect", "st_publish",
                   "st_init", "st_paths", "sp_cleanup", "sp_client",
                   "sp_process", "sp_wait", "sp_clear"}

\* caller t has returned from this operation
Returned(t, op) == hostPc[t] = "returned" /\ hostLoc[t].op = op

(* C11, as stated: at most one Start or Stop is in flight: from the moment
   a Start takes the bridge lock until it returns, no other Start and no
   Stop has taken a step. *)
C11_OneTransitionInFlight ==
    Cardinality({t \in Callers : InFlight(t)}) <= 1

\* the errors Start returns before it has spawned a process or created a
\* client
EarlyErrors ==
    {"plugin already started", "invalid attach string format",
     "failed to start plugin process"}

\* in this step caller t returns from this operation
Returns(t, op) ==
    /\ hostPc[t] # "returned"
    /\ hostPc'[t] = "returned"
    /\ hostLoc'[t].op = op

(* C12, as stated: when Start returns an error after a process was spawned
   or an RPC client created, that process is terminated, that client is
   killed, no backend is published to the Handler, and the backend, client
   and process fields of the bridge are all unset.  Stated for a Start that
   returns while no other caller is inside Start or Stop. *)
C12_FailedStartCleansUp ==
    [][\A t \in Callers :
         /\ Returns(t, "Start")
         /\ hostLoc'[t].err # ""
         /\ hostLoc'[t].err \notin EarlyErrors
         /\ \A u \in Callers \ {t} : hostPc[u] = "idle"
         => /\ hostLoc'[t].manual => procs'[hostLoc'[t].n] = "killed"
            /\ clients'[hostLoc'[t].n] # "running"
            /\ backend' = Nil
            /\ hostBackend' = Nil
            /\ client' = Nil
            /\ pluginCmd' = Nil]_vars

\* in this step caller t enters this operation
Enters(t, op) ==
    /\ hostPc[t] = "idle"
    /\ hostPc'[t] # "idle"
    /\ hostLoc'[t].op = op

(* C13: a Start that finds a backend reference returns the error "plugin
   already started" in that same step, spawns no process and creates no
   client, and leaves the backend, client and process fields and the
   Handler's backend reference as they were. *)
C13_StartWhenStarted ==
    [][\A t \in Callers :
         Enters(t, "Start") /\ hostBackend # Nil
         => /\ hostPc'[t] = "returned"
            /\ hostLoc'[t].err = "plugin already started"
            /\ UNCHANGED <<started, procs, clients>>
            /\ UNCHANGED <<hostBackend, client, pluginCmd, backend>>]_vars

\* a Start was refused while a backend was running
C13_Witness ==
    \E t \in Callers :
        /\ Returned(t, "Start")
        /\ hostLoc[t].err = "plugin already started"
        /\ hostBackend # Nil
        /\ backend = hostBackend

\* the bridge holds no backend, no client and no process
AllUnset == hostBackend = Nil /\ client = Nil /\ pluginCmd = Nil

\* caller t is inside Stop, past its first step
InStop(t) ==
    hostPc[t] \in {"sp_cleanup", "sp_client", "sp_process", "sp_wait",
                   "sp_clear"}

(* C14: a Stop that finds backend, client and process unset calls no hook
   of a backend and kills nothing, and goes on to clear the fields; when a
   Stop returns, the three fields are unset and the Handler has no backend.
   So a Stop after a Stop leaves the state the first one left. *)
C14_StopIdempotent ==
    [][\A t \in Callers :
         /\ Enters(t, "Stop") /\ AllUnset
            => /\ hostPc'[t] = "sp_client"
               /\ UNCHANGED <<tornDown, clients, procs, calls>>
               /\ UNCHANGED <<hostBackend, client, pluginCmd, backend>>
         /\ InStop(t) /\ hostPc'[t] # hostPc[t] /\ AllUnset
            => /\ InStop(t)' \/ hostPc'[t] = "returned"
               /\ UNCHANGED <<tornDown, clients, procs, calls>>
               /\ UNCHANGED <<hostBackend, client, pluginCmd, backend>>
         /\ Returns(t, "Stop")
            => AllUnset' /\ backend' = Nil]_vars

\* both callers have stopped the bridge, one after the other, after a
\* backend had run and was torn down
C14_Witness ==
    /\ \A t \in Callers : Returned(t, "Stop")
    /\ \E b \in 1..MaxStarts : tornDown[b]
    /\ AllUnset
    /\ backend = Nil

(* C15, as stated: HandleRequest never forwards a request to a backend that
   is being torn down: the step in which a worker calls the backend it read
   is never taken after Stop has begun to tear that backend down by calling
   its shutdown hook. *)
C15_NoCallAfterTeardown ==
    [][\A w \in Workers :
         pc[w] = "hr_call" /\ pc'[w] # "hr_call"
         => ~tornDown[loc[w].backend]]_vars

(* ------------------- properties of the translation -------------------- *)
\* in this step worker w gets the backend's answer to its request
BackendAnswers(w) == pc[w] = "hr_call" /\ pc'[w] # "hr_call"

(* C16: when the backend returns an error, the request is answered in that
   step: 403 "permission denied" for the permission-denied sentinel, 500
   with the error's message for any other error; no lease ID is generated,
   the response names no lease and the lease table is unchanged. *)
C16_BackendErrorMapping ==
    [][\A w \in Workers :
         BackendAnswers(w) /\ loc'[w].result.err # ""
         => /\ pc'[w] = "done"
            /\ resp'[w].status = IF loc'[w].result.err = "denied"
                                 THEN StatusForbidden
                                 ELSE StatusInternalServerError
            /\ resp'[w].msg = IF loc'[w].result.err = "denied"
                              THEN "permission denied"
                              ELSE loc'[w].result.err
            /\ resp'[w].lease_id = NoPath
            /\ UNCHANGED <<leases, heap, generated>>]_vars

\* a read was refused by the backend while a lease was in the table
C16_Witness ==
    \E w \in Workers :
        /\ Answered(w, "request")
        /\ loc[w].result.err = "denied"
        /\ loc[w].operation = "read"
        /\ resp[w].status = StatusForbidden
        /\ leases # EmptyMap

\* worker w's request has passed the gate and goes, or went, to the backend
Forwarded(w) ==
    /\ loc[w].kind = "request"
    /\ pc[w] = "hr_call" \/ loc[w].called # "no"

\* the request of worker w names this lifecycle operation, by the suffix of
\* its path or by its operation query parameter
Names(w, name) ==
    \/ HasSuffixSeg(NormalizePath(loc[w].url), name)
    \/ loc[w].query = name

(* C17, as stated: a forwarded request whose path ends in /revoke, /renew,
   /rollback or /rotate, or whose operation query parameter names one of
   them, reaches the backend as that lifecycle operation whatever its verb,
   on a path that does not end with that operation's suffix. *)
C17_LifecycleNamedIsForwarded ==
    \A w \in Workers, name \in LifecycleNames :
        Forwarded(w) /\ Names(w, name)
        => /\ loc[w].operation = name
           /\ ~HasSuffixSeg(loc[w].path, name)

\* the order in which the if-chain tests the lifecycle operations
LifecycleOrder == <<"revoke", "renew", "rollback", "rotate">>

(* C17, amended: a forwarded request that names a lifecycle operation
   reaches the backend, whatever its verb, as the first operation it names
   in the order revoke, renew, rollback, rotate, on its path with one
   occurrence of that operation's suffix removed from the end, if it is
   there. *)
C17_FirstNamedLifecycle ==
    \A w \in Workers :
        Forwarded(w) /\ (\E name \in LifecycleNames : Names(w, name))
        => \E i \in DOMAIN LifecycleOrder :
              /\ loc[w].operation = LifecycleOrder[i]
              /\ Names(w, LifecycleOrder[i])
              /\ \A j \in 1..(i - 1) : ~Names(w, LifecycleOrder[j])
              /\ IF HasSuffixSeg(NormalizePath(loc[w].url), LifecycleOrder[i])
                 THEN loc[w].path \o <<LifecycleOrder[i]>>
                         = NormalizePath(loc[w].url)
                 ELSE loc[w].path = NormalizePath(loc[w].url)

\* a DELETE of x/renew/renew was forwarded as a renewal of x/renew
C17_Witness ==
    \E w \in Workers :
        /\ Forwarded(w)
        /\ loc[w].method = "DELETE"
        /\ loc[w].url = RenewRenewURL
        /\ loc[w].operation = "renew"
        /\ loc[w].path = <<"x", "renew">>

(* C18, as stated: the envelope of a successful backend call contains the
   backend's data when present, its secret, auth and warnings payloads when
   present, omits the fields that are absent, and always carries a generated
   request identifier. *)
C18_EnvelopeCarriesPayloads ==
    \A w \in Workers :
        Answered(w, "request") /\ loc[w].called = "ok"
        => LET r == loc[w].result IN
           /\ resp[w].data = r.data
           /\ resp[w].secret = IF r.secret.present THEN "present" ELSE "absent"
           /\ resp[w].auth = IF r.auth THEN "present" ELSE "absent"
           /\ resp[w].warnings = r.warnings
           /\ resp[w].request_id

(* ------------------- properties of the server ------------------------- *)
(* C19: the health endpoint answers in every state of the bridge: the step
   that reads the backend reference notes "running" exactly when the
   Handler's backend reference is set, and the step that lists the storage
   answers 200 with that plugin_running and with storage_entries equal to
   the number of keys in the storage. *)
C19_HealthReport ==
    [][\A w \in Workers :
         /\ pc[w] = "idle" /\ pc'[w] = "hh_list"
            => loc'[w].running = (backend # Nil)
         /\ pc[w] = "hh_list" /\ pc'[w] # "hh_list"
            => /\ pc'[w] = "done"
               /\ resp'[w].status = StatusOK
               /\ resp'[w].plugin_running = JBool(loc[w].running)
               /\ resp'[w].storage_entries = Cardinality(storage)]_vars

\* a health request was answered while a plugin ran and had stored a key
C19_Witness ==
    \E w \in Workers :
        /\ Answered(w, "health")
        /\ resp[w].status = StatusOK
        /\ resp[w].plugin_running = "true"
        /\ resp[w].storage_entries = MaxKeys
        /\ backend # Nil

\* the URL paths of the three lease endpoints
LeaseEndpoint(url) ==
    \/ url \in {LeaseRenewURL, LeaseRevokeURL}
    \/ HasPrefixDir(url, RevokePrefix)

(* C20, as stated: a PUT or POST to /v1/sys/leases/renew,
   /v1/sys/leases/revoke or /v1/sys/leases/revoke/{lease_id} is dispatched
   to the lease handlers: HandleRequest never takes it and never forwards it
   to the backend as a renew or revoke operation. *)
C20_LeaseEndpointsDispatched ==
    \A w \in Workers :
        loc[w].method \in {"PUT", "POST"} /\ LeaseEndpoint(loc[w].url)
        => ~(Forwarded(w) /\ loc[w].operation \in {"renew", "revoke"})

(* ------------------- properties of parsePluginConfig ------------------ *)
\* the comma-separated pieces of s that are not blank, trimmed
PairsOf(s) ==
    {TrimSpace(Split(s, ",")[i]) : i \in DOMAIN Split(s, ",")} \ {<<>>}

\* the part of a pair before its first '=' and the part after it, trimmed
KeyOf(pair) == TrimSpace(SubSeq(pair, 1, Index(pair, "=") - 1))
ValueOf(pair) == TrimSpace(SubSeq(pair, Index(pair, "=") + 1, Len(pair)))

\* parsePluginConfig has run on a string that is not taken for JSON
ParsedKeyValue == mainPc \in {"host", "fatal"} /\ ~LooksLikeJSON(configStr)

(* C21: parsePluginConfig on a key=value string: if a non-blank,
   comma-separated pair has no '=' the parse fails and returns no map;
   otherwise it returns a map whose keys are the trimmed parts before the
   first '=' of the non-blank pairs, each mapped to the trimmed part after
   the first '=' of such a pair.  The empty string yields an empty map that
   is not nil. *)
C21_KeyValueParsing ==
    ParsedKeyValue
    => IF \E pair \in PairsOf(configStr) : Index(pair, "=") = 0
       THEN config.err /\ config.isNil
       ELSE /\ ~config.err
            /\ ~config.isNil
            /\ DOMAIN config.m = {KeyOf(pair) : pair \in PairsOf(configStr)}
            /\ \A k \in DOMAIN config.m :
                  \E pair \in PairsOf(configStr) :
                     KeyOf(pair) = k /\ config.m[k] = ValueOf(pair)
            /\ configStr = <<>> => config.m = <<>>

\* " k=k=" was parsed: blanks trimmed, an empty pair skipped, and the value
\* holds an '='
C21_Witness ==
    /\ mainPc = "host"
    /\ configStr = <<",", "k", "=", "=", " ">>
    /\ config = ConfigResult(FALSE, FALSE, <<"k">> :> <<"=">>)

(* ------------------------ properties of leases ------------------------ *)
\* worker w is inside a plugin-path request whose backend call was a
\* read answered without error and with data
ReadAnswered(w) ==
    /\ loc[w].kind = "request"
    /\ loc[w].operation = "read"
    /\ loc[w].called = "ok"
    /\ ~loc[w].result.isNil
    /\ loc[w].result.err = ""
    /\ loc[w].result.data

(* C22: a step that adds a record to the lease table is a step of a
   plugin-path request whose operation is read and which the backend
   answered without error and with data; the added key is the lease ID of
   that request.  No other operation, no failed or empty read and no
   lease-endpoint request adds a record. *)
C22_LeasesOnlyFromReads ==
    [][\A id \in DOMAIN leases' \ DOMAIN leases :
          \E w \in Workers : ReadAnswered(w) /\ loc[w].leaseID = id]_vars

\* a read was answered with data and its lease is in the table
C22_Witness ==
    \E w \in Workers :
       /\ ReadAnswered(w)
       /\ pc[w] = "done"
       /\ loc[w].leaseID \in DOMAIN leases

\* worker w is about to notify the backend of the revocation of a lease
\* that has expired
RevokesExpired(w) ==
    /\ pc[w] \in {"rv_notify", "rp_notify"}
    /\ LeaseExpired(now, heap[loc[w].leaseInfo].ExpireTime)

\* a step by which a record leaves the table is the removal of a
\* revocation request for that lease ID; the clock removes and changes
\* nothing
OnlyRevocationRemoves ==
    /\ \A id \in DOMAIN leases \ DOMAIN leases' :
          \E w \in Workers :
             /\ loc[w].kind \in RevokeKinds
             /\ pc[w] \in {"rv_remove", "rp_remove"}
             /\ loc[w].leaseID = id
    /\ now' # now => leases' = leases /\ heap' = heap

\* the expiry check of a renewal on an expired lease answers 400 and
\* leaves the table and its records as they are
ExpiredRenewalRejected ==
    \A w \in Workers :
       (/\ pc[w] = "lr_check"
        /\ pc'[w] # "lr_check"
        /\ LeaseExpired(now, heap[loc[w].leaseInfo].ExpireTime))
       => /\ pc'[w] = "done"
          /\ resp'[w].status = StatusBadRequest
          /\ leases' = leases
          /\ heap' = heap

(* C23, as stated: a record leaves the table only through a revocation
   request, time never removes it, a renewal of an expired lease is answered
   400 and leaves the record, and the revocation of an expired lease is
   answered 204 and sends the backend a revoke-kind request. *)
C23_LazyExpiryAlwaysNotifies ==
    [][/\ OnlyRevocationRemoves
       /\ ExpiredRenewalRejected
       /\ \A w \in Workers :
             (RevokesExpired(w) /\ pc'[w] = "done")
             => /\ resp'[w].status = StatusNoContent
                /\ loc'[w].called \in {"ok", "err"}
                /\ revokeCalls'[loc[w].leaseInfo]
                      = revokeCalls[loc[w].leaseInfo] + 1]_vars

(* C23, amended: a record leaves the table only through a revocation
   request, time never removes it, a renewal of an expired lease is answered
   400 and leaves the record, and the revocation of an expired lease is
   answered 204 and sends the backend a revoke-kind request when a backend
   is set; with no backend set it is answered 204 and nothing is sent. *)
C23_LazyExpiry ==
    [][/\ OnlyRevocationRemoves
       /\ ExpiredRenewalRejected
       /\ \A w \in Workers :
             (RevokesExpired(w) /\ pc'[w] = "done")
             => /\ resp'[w].status = StatusNoContent
                /\ IF backend # Nil
                   THEN /\ loc'[w].called \in {"ok", "err"}
                        /\ revokeCalls'[loc[w].leaseInfo]
                              = revokeCalls[loc[w].leaseInfo] + 1
                   ELSE /\ loc'[w].called = "no"
                        /\ revokeCalls' = revokeCalls]_vars

\* the revocation of a lease that had expired was answered 204 after the
\* backend was notified
C23_Witness ==
    \E w \in Workers :
       /\ pc[w] = "done"
       /\ loc[w].kind \in RevokeKinds
       /\ loc[w].leaseInfo # Nil
       /\ LeaseExpired(now, heap[loc[w].leaseInfo].ExpireTime)
       /\ loc[w].called = "ok"
       /\ resp[w].status = StatusNoContent
       /\ loc[w].leaseID \notin DOMAIN leases

\* the fields of a lease record that no operation assigns after creation
FixedFields(lease) ==
    <<lease.LeaseID, lease.Path, lease.Data, lease.Secret, lease.IssueTime,
      lease.Renewable>>

\* worker w completes a renewal of lease id with the answer 200
RenewalSucceeds(w, id) ==
    /\ loc[w].kind = "renew"
    /\ loc[w].leaseID = id
    /\ pc[w] = "lr_update"
    /\ pc'[w] = "done"
    /\ resp'[w].status = StatusOK

(* C24: a record in the table is stored under its own lease_id; a step
   leaves a record that stays in the table at the same key with the same
   lease_id, path, data, secret, issue_time and renewable; and a step that
   changes such a record at all is the table update of a renewal of that
   lease that is answered 200, so that only expire_time and duration
   change. *)
C24_RecordFrame ==
    [][/\ \A id \in DOMAIN leases' : heap'[leases'[id]].LeaseID = id
       /\ \A id \in DOMAIN leases \cap DOMAIN leases' :
             /\ leases'[id] = leases[id]
             /\ FixedFields(heap'[leases[id]]) = FixedFields(heap[leases[id]])
             /\ heap'[leases[id]] # heap[leases[id]]
                => \E w \in Workers : RenewalSucceeds(w, id)]_vars

\* a renewal a day after the issue was answered 200: the record has a new
\* expire_time and its issue_time is still the time of the read
C24_Witness ==
    \E w \in Workers :
       /\ pc[w] = "done"
       /\ loc[w].kind = "renew"
       /\ resp[w].status = StatusOK
       /\ loc[w].leaseID \in DOMAIN leases
       /\ heap[leases[loc[w].leaseID]].IssueTime = 0
       /\ heap[leases[loc[w].leaseID]].ExpireTime = now + DefaultLeaseDuration
       /\ now = DefaultLeaseDuration

(* ----------------- properties of the backend lifecycle ---------------- *)
\* in this step the bridge makes this call to backend n
Calls(n, call) == calls'[n] = Append(calls[n], call)

\* in this step a backend is published to the Handler
Publishes == backend' # backend /\ backend' # Nil

(* C25: the backend the Handler holds, and the backend the bridge holds, is
   one whose Setup returned success; a backend whose Setup failed is never
   held by either; a backend is published after its Setup and before any
   other lifecycle call, in the step that stores it in the bridge;
   Initialize is called on the published backend after Setup only; the help
   request is sent to the published backend after Setup and Initialize. *)
C25_PublishedAfterSetup ==
    [][/\ backend' # Nil => setup'[backend'] = "ok"
       /\ hostBackend' # Nil => setup'[hostBackend'] = "ok"
       /\ Publishes
          => /\ calls[backend'] = <<"Setup">>
             /\ hostBackend' = backend'
       /\ \A n \in 1..MaxStarts :
             /\ Calls(n, "Initialize")
                => backend = n /\ calls[n] = <<"Setup">>
             /\ Calls(n, "HelpOperation")
                => backend = n /\ calls[n] = <<"Setup", "Initialize">>]_vars

\* a Start has returned success: its backend is published and has seen
\* Setup, Initialize and the help request, in this order
C25_Witness ==
    \E t \in Callers :
       /\ Returned(t, "Start")
       /\ hostLoc[t].err = ""
       /\ backend = hostLoc[t].n
       /\ setup[backend] = "ok"
       /\ calls[backend] = <<"Setup", "Initialize", "HelpOperation">>
       /\ \E n \in 1..MaxStarts : setup[n] = "failed"

\* the answers to the help request that yield no schema
DiscoveryFailures == {"error", "nil", "noData", "noSchema", "undecodable"}

\* backend n is held by the bridge and by the Handler before and after
\* this step
StaysPublished(n) ==
    /\ backend = n /\ backend' = n
    /\ hostBackend = n /\ hostBackend' = n

(* C26: a Start whose Initialize call returns an error goes on to the help
   request with its backend still published and the schema as it was; a
   Start past publication returns success whatever Initialize and the help
   request returned, with its backend still published; and when the help
   request returned an error, nil, no data, no schema object or a schema
   that does not decode, the schema keeps the value it had. *)
C26_PostStartFailuresNotFatal ==
    [][\A t \in Callers :
         /\ (hostPc[t] = "st_init" /\ hostPc'[t] # "st_init"
               /\ hostLoc'[t].init = "err")
            => /\ hostPc'[t] = "st_paths"
               /\ StaysPublished(hostLoc[t].n)
               /\ oasDoc' = oasDoc
         /\ (hostPc[t] = "st_paths" /\ hostPc'[t] # "st_paths")
            => /\ Returns(t, "Start")
               /\ hostLoc'[t].err = ""
               /\ StaysPublished(hostLoc[t].n)
               /\ hostLoc'[t].paths \in DiscoveryFailures => oasDoc' = oasDoc]_vars

\* a second Start returned success although Initialize failed and the
\* schema did not decode: its backend is published and the schema is still
\* that of the first backend
C26_Witness ==
    \E t \in Callers :
       /\ Returned(t, "Start")
       /\ hostLoc[t].err = ""
       /\ hostLoc[t].init = "err"
       /\ hostLoc[t].paths = "undecodable"
       /\ backend = hostLoc[t].n
       /\ hostBackend = hostLoc[t].n
       /\ oasDoc # Nil
       /\ oasDoc # hostLoc[t].n

\* the last lifecycle call made to backend n, <<>> when there is none
LastCall(n) == IF calls[n] = <<>> THEN <<>> ELSE calls[n][Len(calls[n])]

\* in this step the RPC client the bridge holds is killed
KillsClient ==
    /\ client # Nil
    /\ clients[client] = "running"
    /\ clients'[client] = "killed"

\* in this step the bridge is cleared of a backend
Clears == hostBackend # Nil /\ hostBackend' = Nil

(* C27: Stop calls InvalidateKey with the key "shutdown" on the backend the
   bridge holds while its client runs, and Cleanup on it right after that
   call; it kills the client the bridge holds after Cleanup; it kills the
   process it finds in h.pluginCmd after the client is killed and waits for
   it after the kill, and kills no process when it finds none; and it
   clears the fields of the bridge and the Handler's backend, all in one
   step, after InvalidateKey and Cleanup were called, the client was killed
   and the process it found was waited for. *)
C27_StopOrder ==
    [][/\ \A t \in Callers :
             Enters(t, "Stop") /\ hostBackend # Nil
             => /\ Calls(hostBackend, InvalidateKey(ShutdownKey))
                /\ backend = hostBackend
                /\ clients[client] = "running"
                /\ UNCHANGED <<clients, procs>>
       /\ \A n \in 1..MaxStarts :
             Calls(n, "Cleanup")
             => /\ n = hostBackend
                /\ LastCall(n) = InvalidateKey(ShutdownKey)
                /\ clients[client] = "running"
                /\ UNCHANGED <<clients, procs>>
       /\ KillsClient
          => /\ hostBackend # Nil => LastCall(hostBackend) = "Cleanup"
             /\ UNCHANGED procs
       /\ \A t \in Callers :
             hostPc[t] = "sp_process" /\ hostPc'[t] # "sp_process"
             => /\ client # Nil => clients[client] = "killed"
                /\ IF pluginCmd = Nil
                   THEN procs' = procs /\ hostPc'[t] = "sp_clear"
                   ELSE /\ procs'[pluginCmd] = "killed"
                        /\ hostPc'[t] = "sp_wait"
       /\ \A n \in 1..MaxStarts :
             procs[n] # "reaped" /\ procs'[n] = "reaped"
             => procs[n] = "killed"
       /\ Clears
          => /\ LastCall(hostBackend) = "Cleanup"
             /\ clients[client] = "killed"
             /\ \A t \in Callers :
                   hostPc[t] = "sp_clear" /\ hostLoc[t].cmd # Nil
                   => procs[hostLoc[t].cmd] = "reaped"
             /\ backend' = Nil /\ client' = Nil /\ pluginCmd' = Nil
       /\ \A t \in Callers :
             InStop(t) /\ hostPc'[t] # hostPc[t] /\ ~Returns(t, "Stop")
             => UNCHANGED <<hostBackend, client, backend>>]_vars

\* a Stop of a bridge that had launched its plugin has returned: the hooks
\* were called, the client is killed, the process is reaped and the fields
\* are clear
C27_Witness ==
    \E t \in Callers, n \in 1..MaxStarts :
       /\ Returned(t, "Stop")
       /\ hostLoc[t].cmd = n
       /\ calls[n] = <<"Setup", "Initialize", "HelpOperation",
                       InvalidateKey(ShutdownKey), "Cleanup">>
       /\ clients[n] = "killed"
       /\ procs[n] = "reaped"
       /\ AllUnset
       /\ backend = Nil

(* ----------------------- properties of the launch --------------------- *)
\* in this step caller t enters a Start that launches the plugin, and the
\* plugin is spawned
LaunchesPlugin(t) ==
    /\ Enters(t, "Start")
    /\ hostLoc'[t].n # Nil
    /\ hostLoc'[t].attach = <<>>
    /\ procs'[hostLoc'[t].n] # "none"

\* the lines of this output that hold "|unix|" or "|tcp|"
MarkerLines(out) == {i \in 1..Len(out) : HasMarker(out[i])}

(* C28: a Start that launches the plugin takes as descriptor the first line
   of the plugin's output that holds "|unix|" or "|tcp|", whatever the
   lines before and after it; when the output ends without such a line the
   process is killed, Start returns the error "failed to get reattach info
   from plugin" in that step, and no client is created and no backend
   published. *)
C28_FirstMarkerLine ==
    [][\A t \in Callers :
         LaunchesPlugin(t)
         => LET out == hostLoc'[t].stdout
                n == hostLoc'[t].n
            IN  IF MarkerLines(out) = {}
                THEN /\ hostPc'[t] = "returned"
                     /\ hostLoc'[t].err = "failed to get reattach info from plugin"
                     /\ procs'[n] = "killed"
                     /\ clients'[n] = "none"
                     /\ UNCHANGED <<backend, hostBackend, client, pluginCmd>>
                ELSE /\ \E i \in MarkerLines(out) :
                           /\ \A j \in MarkerLines(out) : i <= j
                           /\ hostLoc'[t].reattach = TrimSpace(out[i])
                     /\ hostLoc'[t].err
                           # "failed to get reattach info from plugin"]_vars

\* the plugin wrote a log line and two descriptors, and Start goes on with
\* the first of them, trimmed
C28_Witness ==
    \E t \in Callers :
       /\ hostPc[t] = "st_store"
       /\ Len(hostLoc[t].stdout) = 3
       /\ hostLoc[t].stdout[1] = LogLine
       /\ hostLoc[t].stdout[3] = GoodDescriptor
       /\ hostLoc[t].reattach = Descriptor(<<"1", "5", "tcp", "addr", "netrpc">>)
       /\ procs[hostLoc[t].n] = "running"

\* this descriptor, after one trailing '|' is stripped, has five fields of
\* which the third is unix or tcp
WellFormed(str) ==
    /\ Len(DescriptorParts(str)) = 5
    /\ DescriptorParts(str)[3] \in {<<"unix">>, <<"tcp">>}

(* C29, as stated: a Start that has gone on to create a client, or is about
   to, has a descriptor that is well formed: five fields after one trailing
   '|' is stripped, the third of them unix or tcp. *)
C29_OnlyWellFormedAccepted ==
    \A t \in Callers :
       (/\ hostLoc[t].op = "Start"
        /\ hostLoc[t].n # Nil
        /\ \/ hostPc[t] \in {"st_store", "st_relock", "st_connect",
                             "st_publish", "st_init", "st_paths"}
           \/ clients[hostLoc[t].n] # "none")
       => WellFormed(hostLoc[t].reattach)

(* ------------------------ properties of the path ---------------------- *)
\* the first segment of a path, after its leading '/' if it has one
FirstSegment(path) ==
    IF path[1] = "" /\ Len(path) > 1 THEN path[2] ELSE path[1]

(* C30, as stated: the path of a request that HandleRequest forwards to the
   backend does not begin with the API version segment ("/v1/" or "v1/") and
   its first segment is not the mount segment, for every URL the server
   routes to HandleRequest. *)
C30_PathWithoutVersionAndMount ==
    \A w \in Workers :
       pc[w] = "hr_call"
       => /\ ~HasPrefixDir(loc[w].path, <<"v1">>)
          /\ ~HasPrefixDir(loc[w].path, <<"", "v1">>)
          /\ FirstSegment(loc[w].path) # MountPath[1]

(* C40: in every reachable state every record in the lease table has
   renewable = true, and no renewal request has been answered "lease is not
   renewable". *)
C40_AlwaysRenewable ==
    /\ \A id \in DOMAIN leases : heap[leases[id]].Renewable
    /\ \A w \in Workers : resp[w].msg # "lease is not renewable"

\* a renewal of a lease in the table has passed the renewable check of
\* lines 439-443 and goes on to the backend call
C40_Witness ==
    \E w \in Workers :
        /\ pc[w] = "lr_call"
        /\ loc[w].leaseID \in DOMAIN leases
        /\ heap[loc[w].leaseInfo].Renewable

(* C38: a renewal answered 200 of a lease that the clock has not passed
   leaves the lease's expire_time where it was or later, whatever the
   increment of the request. *)
C38_RenewalNeverShortens ==
    [][\A w \in Workers :
          (/\ pc[w] = "lr_update"
           /\ pc'[w] = "done"
           /\ resp'[w].status = StatusOK
           /\ loc[w].leaseID \in DOMAIN leases
           /\ ~LeaseExpired(now, heap[leases[loc[w].leaseID]].ExpireTime))
          =>
          heap'[leases[loc[w].leaseID]].ExpireTime
              >= heap[leases[loc[w].leaseID]].ExpireTime]_vars

\* this step of worker w sends the backend the renew-kind request of
\* lines 454-479
SendsRenew(w) ==
    /\ pc[w] = "lr_call"
    /\ loc[w].called = "no"
    /\ loc'[w].called \in {"ok", "err"}

(* C39: in every interleaving of renewals and revocations the backend is
   sent no renew-kind request for a lease after it has been sent the
   revoke-kind request for that lease. *)
C39_NoRenewAfterRevoke ==
    [][\A w \in Workers :
          SendsRenew(w) => revokeCalls[loc[w].leaseInfo] = 0]_vars

\* the lease IDs a revocation names here: the empty one, one that was never
\* issued and the ones that reads mint
RevokedIDs ==
    {<<"">>, BogusID} \cup {generateLeaseID(<<"x">>, n) : n \in 1..MaxLeases}

\* the request l is a revocation of id in the body form, {"lease_id": id}
ByBody(l, id) ==
    /\ l.kind = "revoke"
    /\ l.body.kind = "object"
    /\ l.body.lease_id = JStr(id)

\* the request l is a revocation of id in the path form,
\* /v1/sys/leases/revoke/{id}
ByPath(l, id) ==
    /\ l.kind = "revokeByPath"
    /\ l.url = <<"", "v1", "sys", "leases", "revoke">> \o id

(* C34: the two revocation forms are equivalent.  For every lease table and
   every lease ID, a revocation by body and a revocation by path take the
   same steps: an empty ID is answered 400; an ID that is not in the table is
   answered 404 and the table stays; an ID in the table is removed from it,
   the backend, if one is set, is sent one revoke-kind request built from
   the removed record, and the answer is 204.  A lease ID minted by a read
   has slashes and takes these steps in the path form too. *)
C34_RevocationFormsEquivalent ==
    [][\A w \in Workers, id \in RevokedIDs :
          /\ (/\ pc[w] = "idle"
              /\ ByBody(loc'[w], id) \/ ByPath(loc'[w], id)
              /\ loc'[w].method \in {"PUT", "POST"})
             =>
             /\ UNCHANGED <<leases, heap, revokeCalls>>
             /\ IF id = <<"">>
                THEN /\ pc'[w] = "done"
                     /\ resp'[w].status = 400
                ELSE /\ pc'[w] \in {"rv_remove", "rp_remove"}
                     /\ loc'[w].leaseID = id
          /\ (/\ pc[w] \in {"rv_remove", "rp_remove"}
              /\ pc'[w] # pc[w]
              /\ ByBody(loc[w], id) \/ ByPath(loc[w], id))
             =>
             /\ UNCHANGED <<heap, revokeCalls>>
             /\ IF id \in DOMAIN leases
                THEN /\ DOMAIN leases' = DOMAIN leases \ {id}
                     /\ \A k \in DOMAIN leases' : leases'[k] = leases[k]
                     /\ loc'[w].leaseInfo = leases[id]
                     /\ pc'[w] \in {"rv_notify", "rp_notify"}
                ELSE /\ UNCHANGED leases
                     /\ pc'[w] = "done"
                     /\ resp'[w].status = 404
          /\ (/\ pc[w] \in {"rv_notify", "rp_notify"}
              /\ pc'[w] # pc[w]
              /\ ByBody(loc[w], id) \/ ByPath(loc[w], id))
             =>
             /\ UNCHANGED <<leases, heap>>
             /\ pc'[w] = "done"
             /\ resp'[w].status = 204
             /\ revokeCalls' =
                   IF backend = Nil THEN revokeCalls
                   ELSE [revokeCalls EXCEPT ![loc[w].leaseInfo] = @ + 1]]_vars

\* a lease that a read minted, whose ID has slashes, was revoked through the
\* path form: the backend was sent the request and the answer is 204
C34_Witness ==
    \E w \in Workers :
        /\ pc[w] = "done"
        /\ \E n \in 1..MaxLeases : ByPath(loc[w], generateLeaseID(<<"x">>, n))
        /\ Len(loc[w].leaseID) > 1
        /\ loc[w].called = "ok"
        /\ revokeCalls[loc[w].leaseInfo] = 1
        /\ resp[w].status = 204

\* this step is a step of a caller of Start or Stop
HostStep == hostPc' # hostPc

(* C36: Start and Stop never add, remove or modify lease records: no step
   of a Start or a Stop changes the lease table or a record, so a lease
   minted before a Stop is in the table with the same fields after the Stop
   and after a later Start; and a lease in the table can be revoked while no
   backend is set: it is removed and the answer is 204. *)
C36_LeasesSurviveRestarts ==
    [][/\ HostStep => UNCHANGED <<leases, heap>>
       /\ \A w \in Workers :
             /\ (/\ pc[w] = "rv_remove"
                 /\ pc'[w] # pc[w]
                 /\ loc[w].leaseID \in DOMAIN leases)
                =>
                /\ pc'[w] = "rv_notify"
                /\ loc[w].leaseID \notin DOMAIN leases'
             /\ (/\ pc[w] = "rv_notify"
                 /\ pc'[w] # pc[w]
                 /\ backend = Nil)
                =>
                /\ pc'[w] = "done"
                /\ resp'[w].status = 204]_vars

\* a lease minted while a backend was set has been revoked after a Stop
\* cleared the backend: no request was sent and the answer is 204
C36_Witness ==
    \E w \in Workers :
        /\ pc[w] = "done"
        /\ loc[w].kind = "revoke"
        /\ loc[w].leaseInfo # Nil
        /\ loc[w].called = "no"
        /\ resp[w].status = 204
        /\ backend = Nil
        /\ leases = EmptyMap
        /\ \E t \in Callers : hostLoc[t].op = "Stop" /\ hostPc[t] = "returned"

\* no caller is inside Start or Stop
Quiescent == \A t \in Callers : hostPc[t] \in {"idle", "returned", "panicked"}

(* C35: whenever no Start or Stop is in progress, the Handler's backend
   reference is set if and only if the bridge's backend field is set, and
   both are the same backend; and the bridge's client field is set exactly
   when its backend field is. *)
C35_ReferencesAgree ==
    Quiescent =>
        /\ backend = hostBackend
        /\ (client # Nil) <=> (hostBackend # Nil)

\* a Start has returned without error and nothing is in progress: the three
\* fields hold the backend and the client of that Start
C35_Witness ==
    /\ Quiescent
    /\ \E t \in Callers :
          /\ hostPc[t] = "returned"
          /\ hostLoc[t].op = "Start"
          /\ hostLoc[t].err = ""
          /\ backend = hostLoc[t].n
          /\ hostBackend = hostLoc[t].n
          /\ client = hostLoc[t].n

\* the processes that Starts spawned and that are alive
Alive == {n \in DOMAIN procs : procs[n] = "running"}

(* C37: after any sequence of Start and Stop calls every process that a
   Start spawned is the process of the backend that is running or has been
   killed; at most one spawned process is alive at any time; and when a Stop
   has returned and no other call is in progress, none is alive. *)
C37_NoOrphanProcess ==
    /\ Quiescent => \A n \in Alive : hostBackend = n
    /\ Cardinality(Alive) <= 1
    /\ \A t \in Callers :
          (/\ hostPc[t] = "returned"
           /\ hostLoc[t].op = "Stop"
           /\ \A u \in Callers \ {t} : hostPc[u] = "idle")
          => Alive = {}

\* worker w is inside a handler of a plugin read, a renewal or a revocation,
\* past the checks of the request itself
Handling(w) ==
    pc[w] \in {"hr_call", "hr_store", "lr_lookup", "lr_check", "lr_call",
               "lr_update", "rv_remove", "rv_notify", "rp_remove", "rp_notify"}

(* C32: no handler blocks for ever.  With every backend call returning,
   every plugin read, renewal and revocation in progress eventually writes
   its response, in every interleaving; and whenever the lease-table lock is
   held it is eventually released, on every path out of the handler, the
   failing table update included. *)
C32_NoIndefiniteBlocking ==
    /\ \A w \in Workers : Handling(w) ~> (pc[w] = "done")
    /\ leaseMu ~> ~leaseMu

\* this step writes the backend, client or process field of the bridge
WritesBridgeFields ==
    <<hostBackend, client, pluginCmd>>' # <<hostBackend, client, pluginCmd>>

\* worker a is about to read fields of a lease record without the lock
\* (lines 439-449) while worker b is about to write them (lines 483-484)
RecordRace(a, b) ==
    /\ a # b
    /\ pc[a] = "lr_check"
    /\ pc[b] = "lr_update"
    /\ loc[b].leaseID \in DOMAIN leases
    /\ leases[loc[b].leaseID] = loc[a].leaseInfo

(* C33: every access to shared state happens with its lock held: a step
   that writes the bridge's backend, client or process field is a step of a
   caller that holds the bridge lock, and no state is reached in which one
   worker writes a field of a lease record while another reads it without
   the lease-table lock. *)
C33_AccessUnderLock ==
    [][/\ WritesBridgeFields =>
             \E t \in Callers : hostPc'[t] # hostPc[t] /\ hostMu = t
       /\ \A a, b \in Workers : ~RecordRace(a, b)]_vars

\* thread t is at a Lock or RLock of l
AtAcquire(t, l) ==
    /\ lockProg[t] # <<>>
    /\ Head(lockProg[t])[2] = l
    /\ Head(lockProg[t])[1] \in {"lock", "rlock"}

\* thread a is at a Lock or RLock that cannot return while b holds the lock
WaitsFor(a, b) ==
    \E l \in LockNames :
        /\ AtAcquire(a, l)
        /\ ~CanAcquire(Head(lockProg[a])[1], l)
        /\ IF Head(lockProg[a])[1] = "lock" THEN Holds(b, l)
           ELSE locks[l].w = b

\* some threads wait on each other's locks in a cycle
WaitCycle ==
    \E S \in SUBSET Threads :
        /\ S # {}
        /\ \A a \in S : \E b \in S : WaitsFor(a, b)

(* C31: the lock discipline is deadlock-free: no thread holds the lock of
   the backend reference and the lock of the lease table at the same time,
   no thread is at an acquisition of the bridge lock while it holds either
   of them, and in no interleaving of Start, Stop, plugin requests,
   renewals and revocations do threads wait on each other's locks in a
   cycle. *)
C31_LockDiscipline ==
    /\ \A t \in Threads : ~(Holds(t, "mu") /\ Holds(t, "leaseMu"))
    /\ \A t \in Threads :
          Holds(t, "mu") \/ Holds(t, "leaseMu") => ~AtAcquire(t, "hostMu")
    /\ ~WaitCycle

\* a caller inside SetBackend holds the bridge lock and the lock of the
\* backend reference while one worker holds the lease-table lock and the
\* other waits for the caller: the locks are contended and nobody waits in
\* a cycle
C31_Witness ==
    \E c \in Callers, w, v \in Workers :
        /\ Holds(c, "hostMu")
        /\ Holds(c, "mu")
        /\ Holds(w, "leaseMu")
        /\ WaitsFor(v, c)

====
